---------------------------- MODULE Spec2Model ----------------------------
(***************************************************************************)
(* State-machine model of the bloodwork_age pipeline: the batch URL        *)
(* generators (generate_batch_urls.py, generate_levine_batch_urls.py),     *)
(* their helpers (biomarkers.py, levine_biomarkers.py, config.py) and the  *)
(* incremental driver (update_incremental.py).                             *)
(*                                                                         *)
(* Text is modelled by TLA+ strings, processed character by character      *)
(* (SubSeq(s, i, i) is the i-th character), so that stripping, cleaning,   *)
(* parsing and sorting do what the Python code does.                       *)
(***************************************************************************)
EXTENDS Integers, Sequences, FiniteSets, TLC

(***************************************************************************)
(* State.                                                                  *)
(*   csv    the data rows of bloodwork.csv                                 *)
(*   files  the JSON files of the working directory                        *)
(*   run    per process running update_incremental.main: its position pc,  *)
(*          its local variables and whether it has logged an error reading *)
(*          the store (read_error)                                         *)
(*   config the settings of config.py: BIRTHDATE as the user has edited it *)
(*   call   a function applied on its own: its name, argument and result   *)
(***************************************************************************)
VARIABLES csv, files, run, config, call

vars == <<csv, files, run, config, call>>

(***************************************************************************)
(* Python string primitives.                                               *)
(***************************************************************************)
Char(s, i) == SubSeq(s, i, i)

\* Runs of consecutive ASCII characters with the code point of their first
\* character: the alphabet of the texts the model handles.
AsciiRuns ==
  << <<" ", 32>>, <<"%", 37>>, <<"()", 40>>, <<"+,-./0123456789", 43>>,
     <<"<=>", 60>>, <<"ABCDEFGHIJKLMNOPQRSTUVWXYZ", 65>>, <<"_", 95>>,
     <<"abcdefghijklmnopqrstuvwxyz", 97>> >>

Alphabet ==
  UNION {{Char(AsciiRuns[k][1], i) : i \in 1..Len(AsciiRuns[k][1])} :
           k \in 1..Len(AsciiRuns)}

OrdOf ==
  [c \in Alphabet |->
     LET k == CHOOSE k \in 1..Len(AsciiRuns) :
                \E i \in 1..Len(AsciiRuns[k][1]) : Char(AsciiRuns[k][1], i) = c
         i == CHOOSE i \in 1..Len(AsciiRuns[k][1]) : Char(AsciiRuns[k][1], i) = c
     IN  AsciiRuns[k][2] + i - 1]

\* ord(c) for a character c of the alphabet (tab, newline, ...: below space).
Ord(c) == IF c \in Alphabet THEN OrdOf[c] ELSE 9

\* chr(n) for a code point of the alphabet.
Chr(n) == CHOOSE c \in Alphabet : OrdOf[c] = n

Digits == {"0", "1", "2", "3", "4", "5", "6", "7", "8", "9"}
Whitespace == {" ", "\t", "\n", "\r"}

DigitVal(c) == Ord(c) - 48

\* Python str < str: lexicographic by code point.
RECURSIVE StrLess(_, _)
StrLess(a, b) ==
  IF b = "" THEN FALSE
  ELSE IF a = "" THEN TRUE
  ELSE IF Head(a) = Head(b) THEN StrLess(Tail(a), Tail(b))
  ELSE Ord(Head(a)) < Ord(Head(b))

\* str.lstrip() / str.rstrip() / str.strip() with no argument.
RECURSIVE LStrip(_)
LStrip(s) ==
  IF s # "" /\ Head(s) \in Whitespace THEN LStrip(Tail(s)) ELSE s

RECURSIVE RStrip(_)
RStrip(s) ==
  IF s # "" /\ Char(s, Len(s)) \in Whitespace
  THEN RStrip(SubSeq(s, 1, Len(s) - 1))
  ELSE s

Strip(s) == RStrip(LStrip(s))

\* s.replace(c, '') for a one-character c: every occurrence is removed.
RECURSIVE RemoveChar(_, _)
RemoveChar(s, c) ==
  IF s = "" THEN ""
  ELSE IF Head(s) = c THEN RemoveChar(Tail(s), c)
  ELSE Head(s) \o RemoveChar(Tail(s), c)

LowerChar(c) ==
  IF Ord(c) >= 65 /\ Ord(c) <= 90 THEN Chr(Ord(c) + 32) ELSE c

\* str.lower()
RECURSIVE Lower(_)
Lower(s) == IF s = "" THEN "" ELSE LowerChar(Head(s)) \o Lower(Tail(s))

\* sorted(list(S)) for a set S of strings.
RECURSIVE SortedStrings(_)
SortedStrings(S) ==
  IF S = {} THEN <<>>
  ELSE LET m == CHOOSE x \in S : \A y \in S : y = x \/ StrLess(x, y)
       IN  <<m>> \o SortedStrings(S \ {m})

(***************************************************************************)
(* biomarkers.py                                                           *)
(***************************************************************************)
BASE_URL == "https://www.longevity-tools.com/humanitys-bortz-blood-age#?"
DATA_NOT_AVAILABLE == "data not available"

BIOMARKER_MAP ==
  "Age" :> "age" @@
  "Albumin" :> "S-albumin" @@
  "S-albumin" :> "S-albumin" @@
  "ALP" :> "S-ALP" @@
  "S-ALP" :> "S-ALP" @@
  "Urea" :> "S-urea" @@
  "S-urea" :> "S-urea" @@
  "BUN" :> "S-urea" @@
  "Cholesterol" :> "S-cholesterol" @@
  "Total Cholesterol" :> "S-cholesterol" @@
  "S-cholesterol" :> "S-cholesterol" @@
  "Creatinine" :> "S-creatinine" @@
  "S-creatinine" :> "S-creatinine" @@
  "Cystatin C" :> "S-cystatin-C" @@
  "S-cystatin-C" :> "S-cystatin-C" @@
  "HbA1c" :> "B-HbA1c" @@
  "B-HbA1c" :> "B-HbA1c" @@
  "hsCRP" :> "S-hsCRP" @@
  "hs-CRP" :> "S-hsCRP" @@
  "S-hsCRP" :> "S-hsCRP" @@
  "GGT" :> "S-GGT" @@
  "S-GGT" :> "S-GGT" @@
  "Red Blood Cell Count" :> "RBC" @@
  "RBC" :> "RBC" @@
  "MCV" :> "MCV" @@
  "RDW" :> "RDW" @@
  "RDW (RDW-CV)" :> "RDW" @@
  "RDW-SD" :> "RDW" @@
  "RDW-CV" :> "RDW" @@
  "Absolute Monocytes" :> "MONOabs" @@
  "MONOabs" :> "MONOabs" @@
  "Monocytes (Absolute)" :> "MONOabs" @@
  "Absolute Neutrophils" :> "NEUabs" @@
  "NEUabs" :> "NEUabs" @@
  "Neutrophils (Absolute)" :> "NEUabs" @@
  "LYM" :> "LYM" @@
  "Lymphocytes (%)" :> "LYM" @@
  "ALT" :> "S-ALT" @@
  "S-ALT" :> "S-ALT" @@
  "SHBG" :> "S-SHBG" @@
  "S-SHBG" :> "S-SHBG" @@
  "Vitamin D (25-OH)" :> "S-25-OH-D" @@
  "Vitamin D - 25(OH)D" :> "S-25-OH-D" @@
  "Vitamin D3 (25-OH D3)" :> "S-25-OH-D" @@
  "Vitamin D, 25-Hydroxy" :> "S-25-OH-D" @@
  "S-25-OH-D" :> "S-25-OH-D" @@
  "Glucose" :> "S-glucose" @@
  "S-glucose" :> "S-glucose" @@
  "Glucose (Fasting)" :> "S-glucose" @@
  "MCH" :> "MCH" @@
  "ApoA1" :> "S-ApoA1" @@
  "S-ApoA1" :> "S-ApoA1" @@
  "Apolipoprotein A1" :> "S-ApoA1"

\* Python's None where a str is expected: a token that is none of the texts
\* the model handles (its first character is outside their alphabet).
None == "\\None"

\* Mutant of clean_value: the ends are stripped before the signs are removed.
clean_value_StripFirst(val) ==
  IF val = None \/ val = "" THEN ""
  ELSE RemoveChar(RemoveChar(RemoveChar(Strip(val), "<"), ">"), "=")

\* clean_value(val): every '<', '>' and '=' is removed, then the ends are
\* stripped of whitespace.
clean_value(val) ==
  IF val = None \/ val = "" THEN ""
  ELSE Strip(RemoveChar(RemoveChar(RemoveChar(val, "<"), ">"), "="))

\* The literals float() accepts after stripping whitespace and one sign:
\* inf, infinity, nan in any case, or a decimal number with an optional
\* fraction and exponent, single underscores allowed between digits.
FloatNext(q, c) ==
  CASE q = "start" /\ c \in Digits -> "int"
    [] q = "start" /\ c = "."      -> "dot"
    [] q = "int"   /\ c \in Digits -> "int"
    [] q = "int"   /\ c = "_"      -> "int_"
    [] q = "int"   /\ c = "."      -> "frac0"
    [] q = "int"   /\ c \in {"e", "E"} -> "exp0"
    [] q = "int_"  /\ c \in Digits -> "int"
    [] q = "dot"   /\ c \in Digits -> "frac"
    [] q = "frac0" /\ c \in Digits -> "frac"
    [] q = "frac0" /\ c \in {"e", "E"} -> "exp0"
    [] q = "frac"  /\ c \in Digits -> "frac"
    [] q = "frac"  /\ c = "_"      -> "frac_"
    [] q = "frac"  /\ c \in {"e", "E"} -> "exp0"
    [] q = "frac_" /\ c \in Digits -> "frac"
    [] q = "exp0"  /\ c \in {"+", "-"} -> "exp1"
    [] q = "exp0"  /\ c \in Digits -> "exp"
    [] q = "exp1"  /\ c \in Digits -> "exp"
    [] q = "exp"   /\ c \in Digits -> "exp"
    [] q = "exp"   /\ c = "_"      -> "exp_"
    [] q = "exp_"  /\ c \in Digits -> "exp"
    [] OTHER -> "reject"

RECURSIVE FloatRun(_, _)
FloatRun(q, s) == IF s = "" THEN q ELSE FloatRun(FloatNext(q, Head(s)), Tail(s))

\* float(val) does not raise ValueError.
FloatParses(val) ==
  LET t == Strip(val)
      u == IF t # "" /\ Head(t) \in {"+", "-"} THEN Tail(t) ELSE t
  IN  \/ Lower(u) \in {"inf", "infinity", "nan"}
      \/ FloatRun("start", u) \in {"int", "frac0", "frac", "exp"}

is_valid_numeric(val) ==
  IF val = "" THEN FALSE
  ELSE IF Lower(val) \in {DATA_NOT_AVAILABLE, "n/a", "na", "pending", "none", "null"}
       THEN FALSE
       ELSE FloatParses(val)

normalize_unit_Unchanged(unit) == unit

normalize_unit(unit) == IF unit = "%" THEN "%25" ELSE unit

(***************************************************************************)
(* levine_biomarkers.py                                                    *)
(***************************************************************************)
LEVINE_BASE_URL == "https://www.longevity-tools.com/levine-pheno-age#"

LEVINE_BIOMARKER_MAP ==
  "Age" :> "age" @@
  "Albumin" :> "S-albumin" @@
  "S-albumin" :> "S-albumin" @@
  "Creatinine" :> "S-creatinine" @@
  "S-creatinine" :> "S-creatinine" @@
  "Glucose" :> "S-glucose" @@
  "S-glucose" :> "S-glucose" @@
  "Glucose (Fasting)" :> "S-glucose" @@
  "hsCRP" :> "S-hsCRP" @@
  "hs-CRP" :> "S-hsCRP" @@
  "S-hsCRP" :> "S-hsCRP" @@
  "CRP" :> "S-hsCRP" @@
  "LYM" :> "LYM" @@
  "Lymphocytes (%)" :> "LYM" @@
  "Lymphocytes" :> "LYM" @@
  "MCV" :> "MCV" @@
  "RDW" :> "RDW" @@
  "RDW (RDW-CV)" :> "RDW" @@
  "RDW-SD" :> "RDW" @@
  "RDW-CV" :> "RDW" @@
  "ALP" :> "S-ALP" @@
  "S-ALP" :> "S-ALP" @@
  "Alkaline Phosphatase" :> "S-ALP" @@
  "WBC" :> "WBC" @@
  "White Blood Cell Count" :> "WBC" @@
  "White Blood Cells" :> "WBC" @@
  "Leukocytes" :> "WBC"

LEVINE_REQUIRED_BIOMARKERS ==
  {"S-albumin", "S-creatinine", "S-glucose", "S-hsCRP", "LYM", "MCV", "RDW",
   "S-ALP", "WBC", "age"}

\* Mutant of validate_levine_data: an id that is not required makes the
\* validation fail.
validate_levine_data_Strict(data) ==
  <<DOMAIN data = LEVINE_REQUIRED_BIOMARKERS,
    SortedStrings(LEVINE_REQUIRED_BIOMARKERS \ DOMAIN data)>>

\* Mutant of validate_levine_data: one missing id is let through.
validate_levine_data_AllButOne(data) ==
  LET missing == LEVINE_REQUIRED_BIOMARKERS \ DOMAIN data
  IN  <<Cardinality(missing) <= 1, SortedStrings(missing)>>

\* validate_levine_data(data): (is_valid, sorted list of the missing ids).
validate_levine_data(data) ==
  LET present == DOMAIN data
      required == LEVINE_REQUIRED_BIOMARKERS
      missing == required \ present
  IN  <<Cardinality(missing) = 0, SortedStrings(missing)>>

(***************************************************************************)
(* datetime: a datetime at midnight is modelled by its proleptic Gregorian *)
(* ordinal (date.toordinal(), at least 1); a raised ValueError by the      *)
(* value ValueError, which is no ordinal.                                  *)
(***************************************************************************)
ValueError == 0 - 1

IsLeap(y) == (y % 4 = 0) /\ ((y % 100 # 0) \/ (y % 400 = 0))

DaysInMonth(y, m) ==
  IF m = 2 THEN (IF IsLeap(y) THEN 29 ELSE 28)
  ELSE IF m \in {4, 6, 9, 11} THEN 30 ELSE 31

RECURSIVE DaysBeforeMonth(_, _)
DaysBeforeMonth(y, m) ==
  IF m = 1 THEN 0 ELSE DaysBeforeMonth(y, m - 1) + DaysInMonth(y, m - 1)

ToOrdinal(y, m, d) ==
  LET p == y - 1
  IN  p * 365 + (p \div 4) - (p \div 100) + (p \div 400) + DaysBeforeMonth(y, m) + d

AllDigits(s) == \A i \in 1..Len(s) : Char(s, i) \in Digits

RECURSIVE StrToNat(_)
StrToNat(s) ==
  IF s = "" THEN 0
  ELSE 10 * StrToNat(SubSeq(s, 1, Len(s) - 1)) + DigitVal(Char(s, Len(s)))

\* %m matches 1[0-2] | 0[1-9] | [1-9]
MonthField(s) ==
  \/ Len(s) = 1 /\ AllDigits(s) /\ s # "0"
  \/ Len(s) = 2 /\ AllDigits(s) /\ StrToNat(s) \in 1..12

\* %d matches 3[01] | [12]\d | 0[1-9] | [1-9] | ' '[1-9]
DayField(s) ==
  \/ Len(s) = 1 /\ AllDigits(s) /\ s # "0"
  \/ Len(s) = 2 /\ AllDigits(s) /\ StrToNat(s) \in 1..31
  \/ Len(s) = 2 /\ Head(s) = " " /\ Char(s, 2) \in Digits \ {"0"}

\* datetime.strptime(s, '%Y-%m-%d'): the whole of s must match
\* \d\d\d\d-%m-%d and name a day that exists.
strptime(s) ==
  LET n  == Len(s)
      cut == IF n >= 7 /\ Char(s, 7) = "-" THEN 7 ELSE 8
      ys == SubSeq(s, 1, 4)
      ms == SubSeq(s, 6, cut - 1)
      ds == SubSeq(s, cut + 1, n)
  IN  IF /\ n >= 8
         /\ AllDigits(ys)
         /\ Char(s, 5) = "-"
         /\ Char(s, cut) = "-"
         /\ MonthField(ms)
         /\ DayField(ds)
      THEN LET y == StrToNat(ys)
               m == StrToNat(ms)
               d == StrToNat(LStrip(ds))
           IN  IF y >= 1 /\ d <= DaysInMonth(y, m)
               THEN ToOrdinal(y, m, d)
               ELSE ValueError
      ELSE ValueError

(***************************************************************************)
(* config.py                                                               *)
(***************************************************************************)
BIRTHDATE == "1958-07-08"

get_birthdate == strptime(config.BIRTHDATE)

RECURSIVE NatToStr(_)
NatToStr(n) ==
  IF n < 10 THEN Chr(48 + n) ELSE NatToStr(n \div 10) \o Chr(48 + (n % 10))

\* Mutant of calculate_age: the tenths are cut off, not rounded.
calculate_age_Truncated(birthdate, test_date) ==
  LET age_days == test_date - birthdate
      mag == IF age_days < 0 THEN 0 - age_days ELSE age_days
      tenths == (40 * mag) \div 1461
  IN  (IF age_days < 0 THEN "-" ELSE "")
        \o NatToStr(tenths \div 10) \o "." \o NatToStr(tenths % 10)

\* calculate_age(birthdate, test_date) followed by str(): the days between
\* the two dates divided by 365.25 and rounded to one decimal.  days/365.25
\* is never half way between two tenths (80 * days = 1461 * odd has no
\* solution), so round() is the nearest tenth.
calculate_age(birthdate, test_date) ==
  LET age_days == test_date - birthdate
      mag == IF age_days < 0 THEN 0 - age_days ELSE age_days
      tenths == (80 * mag + 1461) \div 2922
  IN  (IF age_days < 0 THEN "-" ELSE "")
        \o NatToStr(tenths \div 10) \o "." \o NatToStr(tenths % 10)

(***************************************************************************)
(* urllib.parse.quote(s, safe=''): letters, digits and "_.-~" are kept,    *)
(* every other character becomes %XX (upper-case hexadecimal).             *)
(***************************************************************************)
HexDigits == "0123456789ABCDEF"

IsUnreserved(c) ==
  \/ c \in Digits
  \/ (Ord(c) >= 65 /\ Ord(c) <= 90)
  \/ (Ord(c) >= 97 /\ Ord(c) <= 122)
  \/ c \in {"_", ".", "-", "~"}

QuoteChar(c) ==
  IF IsUnreserved(c) THEN c
  ELSE "%" \o Char(HexDigits, (Ord(c) \div 16) + 1) \o Char(HexDigits, (Ord(c) % 16) + 1)

RECURSIVE quote(_)
quote(s) == IF s = "" THEN "" ELSE QuoteChar(Head(s)) \o quote(Tail(s))

\* '&'.join(params)
RECURSIVE JoinAmp(_)
JoinAmp(params) ==
  IF params = <<>> THEN ""
  ELSE IF Len(params) = 1 THEN params[1]
  ELSE params[1] \o "&" \o JoinAmp(Tail(params))

(***************************************************************************)
(* Python dict and list helpers.                                           *)
(***************************************************************************)
EmptyDict == [k \in {} |-> {}]

\* data[key] = entry
DictPut(data, key, entry) ==
  [k \in (DOMAIN data) \cup {key} |-> IF k = key THEN entry ELSE data[k]]

Range(seq) == {seq[i] : i \in 1..Len(seq)}

(***************************************************************************)
(* generate_batch_urls.py / generate_levine_batch_urls.py                  *)
(*                                                                         *)
(* A CSV row is a record [Biomarker, Value, Unit, Date] of raw strings     *)
(* (Date is the column 'Measurement Date').                                *)
(***************************************************************************)
\* Mutant of WithinCutoff: the cutoff test is left out.
WithinCutoff_Always(date_obj, cutoff_date) == TRUE

\* Mutant of WithinCutoff: only the readings of the cutoff date itself are
\* taken.
WithinCutoff_SameDay(date_obj, cutoff_date) == date_obj = cutoff_date

\* date_obj <= cutoff_date
WithinCutoff(date_obj, cutoff_date) == date_obj <= cutoff_date

\* Mutant of IsNewer: the comparison is turned round, the earliest reading
\* is kept.
IsNewer_Earliest(data, marker_id, date_obj) ==
  marker_id \notin DOMAIN data \/ date_obj < data[marker_id].date

\* Mutant of IsNewer: a reading of the same date replaces the one held.
IsNewer_OrSame(data, marker_id, date_obj) ==
  marker_id \notin DOMAIN data \/ date_obj >= data[marker_id].date

\* marker_id not in data or date_obj > data[marker_id]['date']
IsNewer(data, marker_id, date_obj) ==
  marker_id \notin DOMAIN data \/ date_obj > data[marker_id].date

\* Mutant of Resolve: the raw name is used as the id.
Resolve_RawName(map, raw_marker) == raw_marker

\* marker_id = BIOMARKER_MAP[raw_marker]: the canonical id of a raw name.
Resolve(map, raw_marker) == map[raw_marker]

\* Mutant of Raised: a date that does not parse is taken as it comes.
Raised_Never(date_obj) == FALSE

\* try: date_obj = datetime.strptime(...) / except ValueError: continue
Raised(date_obj) == date_obj = ValueError

\* The body of `for row in all_rows` for one row: the dict data after it.
\* The two generators differ in the alias table and in whether the unit is
\* kept (with_unit).
FoldRow(map, with_unit, data, row, cutoff_date) ==
  LET raw_marker == Strip(row.Biomarker)
  IN  IF raw_marker \notin DOMAIN map THEN data
      ELSE
      LET marker_id == Resolve(map, raw_marker)
      IN  IF marker_id = "age" THEN data
          ELSE
          LET value == clean_value(Strip(row.Value))
          IN  IF ~is_valid_numeric(value) THEN data
              ELSE
              LET unit == Strip(row.Unit)
                  date_str == Strip(row.Date)
                  date_obj == strptime(date_str)
              IN  IF Raised(date_obj) THEN data
                  ELSE IF /\ WithinCutoff(date_obj, cutoff_date)
                          /\ IsNewer(data, marker_id, date_obj)
                       THEN DictPut(data, marker_id,
                              IF with_unit
                              THEN [value |-> value, unit |-> unit, date |-> date_obj]
                              ELSE [value |-> value, date |-> date_obj])
                       ELSE data

bortz_row(data, row, cutoff_date) ==
  FoldRow(BIOMARKER_MAP, TRUE, data, row, cutoff_date)

levine_row(data, row, cutoff_date) ==
  FoldRow(LEVINE_BIOMARKER_MAP, FALSE, data, row, cutoff_date)

\* for row in all_rows: ... , starting from data
RECURSIVE FoldRows(_, _, _, _)
FoldRows(calc, all_rows, data, cutoff_date) ==
  IF all_rows = <<>> THEN data
  ELSE FoldRows(calc, Tail(all_rows),
                IF calc = "Bortz"
                THEN bortz_row(data, Head(all_rows), cutoff_date)
                ELSE levine_row(data, Head(all_rows), cutoff_date),
                cutoff_date)

\* Mutant of WithAge: no age is added to the snapshot.
WithAge_Absent(calc, data, birthdate, cutoff_date) == data

\* data['age'] = {...} with the age calculated at the cutoff date
WithAge(calc, data, birthdate, cutoff_date) ==
  DictPut(data, "age",
    IF calc = "Bortz"
    THEN [value |-> calculate_age(birthdate, cutoff_date), unit |-> "years",
          date |-> cutoff_date]
    ELSE [value |-> calculate_age(birthdate, cutoff_date), date |-> cutoff_date])

\* The params list built over sorted(data.keys()).
BortzParam(data, marker_id) ==
  LET info == data[marker_id]
      unit == normalize_unit(info.unit)
      val_unit == info.value \o "_" \o unit
  IN  marker_id \o "=" \o quote(val_unit)

LevineParam(data, marker_id) == marker_id \o "=" \o data[marker_id].value

Params_Descending(calc, data) ==
  LET keys == SortedStrings(DOMAIN data)
      n == Len(keys)
  IN  [i \in 1..n |->
         IF calc = "Bortz" THEN BortzParam(data, keys[n + 1 - i])
         ELSE LevineParam(data, keys[n + 1 - i])]

Params(calc, data) ==
  LET keys == SortedStrings(DOMAIN data)
  IN  [i \in 1..Len(keys) |->
         IF calc = "Bortz" THEN BortzParam(data, keys[i])
         ELSE LevineParam(data, keys[i])]

\* The entry appended to results for one cutoff date.
UrlEntry(calc, cutoff_str, data) ==
  [date |-> cutoff_str,
   url  |-> (IF calc = "Bortz" THEN BASE_URL ELSE LEVINE_BASE_URL)
              \o JoinAmp(Params(calc, data))]

\* unique_dates / sorted_dates of the loaded rows
UniqueDates(all_rows) == {Strip(all_rows[i].Date) : i \in 1..Len(all_rows)}

(***************************************************************************)
(* update_incremental.py: pure helpers.  A JSON file is a record           *)
(* [exists, valid, data]: whether the path exists, whether json.load       *)
(* succeeds on it, and the list of {date, url} entries it holds.           *)
(***************************************************************************)
NoFile == [exists |-> FALSE, valid |-> FALSE, data |-> <<>>]
JsonFile(entries) == [exists |-> TRUE, valid |-> TRUE, data |-> entries]

EntryDates(entries) == {entries[i].date : i \in 1..Len(entries)}

\* open / json.load of an existing file raises: the except branch logs
\* "Error reading".
ReadFails(file) == file.exists /\ ~file.valid

\* get_existing_dates(json_file)
get_existing_dates(file) ==
  IF ~file.exists THEN {}
  ELSE IF file.valid THEN EntryDates(file.data)
  ELSE {}

\* get_csv_dates(csv_file)
get_csv_dates(rows) ==
  {Strip(rows[i].Date) : i \in 1..Len(rows)} \ {""}

\* Mutant of filter_new_dates_from_urls: nothing is filtered out.
filter_new_dates_from_urls_All(all_urls, existing_dates) == all_urls

\* filter_new_dates_from_urls(all_urls, existing_dates)
RECURSIVE filter_new_dates_from_urls(_, _)
filter_new_dates_from_urls(all_urls, existing_dates) ==
  IF all_urls = <<>> THEN <<>>
  ELSE (IF Head(all_urls).date \notin existing_dates THEN <<Head(all_urls)>> ELSE <<>>)
         \o filter_new_dates_from_urls(Tail(all_urls), existing_dates)

\* list.sort(key=lambda x: datetime.strptime(x['date'], '%Y-%m-%d')):
\* a stable sort by the parsed date.
RECURSIVE InsertByDate(_, _)
InsertByDate(sorted, x) ==
  IF sorted = <<>> THEN <<x>>
  ELSE IF strptime(sorted[Len(sorted)].date) <= strptime(x.date)
       THEN Append(sorted, x)
       ELSE Append(InsertByDate(SubSeq(sorted, 1, Len(sorted) - 1), x),
                   sorted[Len(sorted)])

\* Mutant of SortByDate: the list is left in the order it has.
SortByDate_Unsorted(entries) == entries

RECURSIVE SortByDate(_)
SortByDate(entries) ==
  IF entries = <<>> THEN <<>>
  ELSE InsertByDate(SortByDate(SubSeq(entries, 1, Len(entries) - 1)),
                    entries[Len(entries)])

\* Mutant of Appended: the loaded entries are dropped, only the new ones are
\* written back.
Appended_OnlyNew(existing_data, new_entries) == SortByDate(new_entries)

\* The list append_to_batch_urls writes back: the loaded entries extended by
\* the new ones, then sorted.
Appended(existing_data, new_entries) == SortByDate(existing_data \o new_entries)

SortRaises(entries) == \E i \in 1..Len(entries) : strptime(entries[i].date) = ValueError

(***************************************************************************)
(* The model's bounds and inputs.                                          *)
(***************************************************************************)
\* The most rows the lab export gains after its first reading.
MaxAppended == 2

\* The most rows it gains while concurrent runs are under way.
MaxAppendedDuringRuns == 1

Row(b, v, u, d) == [Biomarker |-> b, Value |-> v, Unit |-> u, Date |-> d]

\* bloodwork.csv at the start: one reading.
FirstCsv == <<Row("Glucose", "95", "mg/dL", "2024-01-10")>>

\* The rows the lab export may gain: a later reading under an alias with a
\* comparison prefix, a second reading of the same day, a third date, another
\* biomarker under a second spelling of the first date, a value that is not
\* numeric, a raw age, and a date that does not exist.
RowPool ==
  { Row("Glucose (Fasting)", "<110", "mg/dL", "2024-03-05"),
    Row("Glucose", "101", "mg/dL", "2024-03-05"),
    Row("Glucose (Fasting)", "120", "mg/dL", "2024-06-01"),
    Row("LYM", " 30 ", "%", "2024-1-10"),
    Row("Glucose", "n/a", "mg/dL", "2024-06-01"),
    Row("Age", "60", "years", "2024-01-10"),
    Row("Glucose", "99", "mg/dL", "2024-13-01") }

Procs == {1, 2}
Calculators == {"Bortz", "Levine", "Both"}

STORE(calc) == IF calc = "Bortz" THEN "batch_urls.json" ELSE "levine_batch_urls.json"
TEMP(calc) ==
  IF calc = "Bortz" THEN "temp_batch_urls.json" ELSE "temp_levine_batch_urls.json"
\* --output of generate_levine_url.py
LEVINE_URL_FILE == "levine_url.txt"

\* --output of process_batch_urls.py and open_batch_urls.py, and of
\* process_levine_batch_urls.py
HISTORY(calc) ==
  IF calc = "Bortz" THEN "age_history.csv" ELSE "levine_age_history.csv"

FileNames ==
  {STORE("Bortz"), STORE("Levine"), TEMP("Bortz"), TEMP("Levine"),
   LEVINE_URL_FILE, HISTORY("Bortz"), HISTORY("Levine")}

Idle ==
  [pc |-> "idle", calculator |-> "Both", calc |-> "Bortz",
   csv_dates |-> {}, existing_dates |-> {}, all_rows |-> <<>>,
   sorted_dates |-> <<>>, idx |-> 1, cutoff_str |-> "", data |-> EmptyDict,
   results |-> <<>>, new_urls |-> <<>>, existing_data |-> <<>>,
   read_error |-> FALSE]

\* No function is being applied on its own.
NoCall == [fn |-> "none"]

Init ==
  /\ csv = FirstCsv
  /\ files = [f \in FileNames |-> NoFile]
  /\ run = [p \in Procs |-> Idle]
  /\ config = [BIRTHDATE |-> BIRTHDATE]
  /\ call = NoCall

AllIdle == \A p \in Procs : run[p].pc = "idle"

\* The lab export gains a row (between runs).
AppendRow(row) ==
  /\ AllIdle
  /\ Len(csv) < Len(FirstCsv) + MaxAppended
  /\ csv' = Append(csv, row)
  /\ UNCHANGED <<files, run, config, call>>

\* main, lines 172-189: the CSV dates are read; with none, main returns.
Start(p, calculator) ==
  /\ run[p].pc = "idle"
  /\ get_csv_dates(csv) # {}
  /\ run' = [run EXCEPT ![p] =
       [Idle EXCEPT !.pc = "existing",
                    !.calculator = calculator,
                    !.calc = IF calculator = "Levine" THEN "Levine" ELSE "Bortz",
                    !.csv_dates = get_csv_dates(csv)]]
  /\ UNCHANGED <<csv, files, config, call>>

\* The locals of process p after one calculator's block: main goes on to the
\* Levine block, or ends.
AfterBlock(r) ==
  IF r.calc = "Bortz" /\ r.calculator = "Both"
  THEN [Idle EXCEPT !.pc = "existing", !.calculator = r.calculator,
                    !.calc = "Levine", !.csv_dates = r.csv_dates]
  ELSE Idle

\* main, lines 194-197 and 225-226 (231-234, 260-261): the dates already in
\* the store are read; with no new date the block ends.
GetExisting(p) ==
  LET r == run[p]
      existing == get_existing_dates(files[STORE(r.calc)])
      new_dates == r.csv_dates \ existing
  IN  /\ r.pc = "existing"
      /\ run' = [run EXCEPT ![p] =
           IF new_dates # {}
           THEN [r EXCEPT !.pc = "load", !.existing_dates = existing,
                          !.read_error = ReadFails(files[STORE(r.calc)])]
           ELSE AfterBlock(r)]
      /\ UNCHANGED <<csv, files, config, call>>

\* get_all_urls / get_all_levine_urls, lines 43-67: the rows are loaded.
Load(p) ==
  LET r == run[p]
  IN  /\ r.pc = "load"
      /\ run' = [run EXCEPT ![p] =
           [r EXCEPT !.pc = "loop", !.all_rows = csv,
                     !.sorted_dates = SortedStrings(UniqueDates(csv)),
                     !.idx = 1, !.results = <<>>]]
      /\ UNCHANGED <<csv, files, config, call>>

\* Mutant of Emits: a snapshot is never held back.
Emits_Always(calc, data) == TRUE

\* Whether the snapshot built for a cutoff date gets a URL entry.
Emits(calc, data) ==
  IF calc = "Bortz" THEN TRUE ELSE validate_levine_data(data)[1]

\* One iteration of `for cutoff_str in sorted_dates`.
LoopStep(p) ==
  LET r == run[p]
      cutoff_str == r.sorted_dates[r.idx]
      cutoff_date == strptime(cutoff_str)
      data == FoldRows(r.calc, r.all_rows, EmptyDict, cutoff_date)
      birthdate == get_birthdate
      aged == WithAge(r.calc, data, birthdate, cutoff_date)
  IN  /\ r.pc = "loop"
      /\ r.idx <= Len(r.sorted_dates)
      /\ run' = [run EXCEPT ![p] =
           IF cutoff_date = ValueError
           THEN [r EXCEPT !.idx = @ + 1, !.cutoff_str = cutoff_str]
           ELSE IF DOMAIN data = {}
           THEN [r EXCEPT !.idx = @ + 1, !.cutoff_str = cutoff_str, !.data = data]
           ELSE IF birthdate = ValueError
           THEN [r EXCEPT !.pc = "cleanup", !.cutoff_str = cutoff_str,
                          !.data = data, !.results = <<>>]
           ELSE IF ~Emits(r.calc, aged)
           THEN [r EXCEPT !.idx = @ + 1, !.cutoff_str = cutoff_str, !.data = aged]
           ELSE [r EXCEPT !.idx = @ + 1, !.cutoff_str = cutoff_str, !.data = aged,
                          !.results = Append(@, UrlEntry(r.calc, cutoff_str, aged))]]
      /\ UNCHANGED <<csv, files, config, call>>

\* The generator's lines 149-158 (the results are saved to the temporary
\* file and returned), then main's lines 209-220: the new entries are
\* filtered out of the returned list.
Save(p) ==
  LET r == run[p]
      all_urls == r.results
      new_urls == filter_new_dates_from_urls(all_urls, r.existing_dates)
  IN  /\ r.pc = "loop"
      /\ r.idx > Len(r.sorted_dates)
      /\ files' = [files EXCEPT ![TEMP(r.calc)] = JsonFile(r.results)]
      /\ run' = [run EXCEPT ![p] =
           IF all_urls # <<>> /\ new_urls # <<>>
           THEN [r EXCEPT !.pc = "append_read", !.new_urls = new_urls]
           ELSE [r EXCEPT !.pc = "cleanup", !.new_urls = <<>>]]
      /\ UNCHANGED <<csv, config, call>>

\* append_to_batch_urls, lines 88-96: the store is loaded again.
AppendRead(p) ==
  LET r == run[p]
      file == files[STORE(r.calc)]
  IN  /\ r.pc = "append_read"
      /\ run' = [run EXCEPT ![p] =
           IF ~file.exists
           THEN [r EXCEPT !.pc = "append_write", !.existing_data = <<>>]
           ELSE IF file.valid
           THEN [r EXCEPT !.pc = "append_write", !.existing_data = file.data]
           ELSE [r EXCEPT !.pc = "cleanup", !.read_error = TRUE]]
      /\ UNCHANGED <<csv, files, config, call>>

\* append_to_batch_urls, lines 98-109: extend, sort, write back.  A date the
\* sort key cannot parse raises out of main.
AppendWrite(p) ==
  LET r == run[p]
      all == r.existing_data \o r.new_urls
  IN  /\ r.pc = "append_write"
      /\ IF SortRaises(all)
         THEN /\ run' = [run EXCEPT ![p] = Idle]
              /\ UNCHANGED files
         ELSE /\ files' = [files EXCEPT ![STORE(r.calc)] =
                             JsonFile(Appended(r.existing_data, r.new_urls))]
              /\ run' = [run EXCEPT ![p] = [r EXCEPT !.pc = "cleanup"]]
      /\ UNCHANGED <<csv, config, call>>

\* main, lines 222-224: the temporary file is removed.
Cleanup(p) ==
  LET r == run[p]
  IN  /\ r.pc = "cleanup"
      /\ files' = [files EXCEPT ![TEMP(r.calc)] = NoFile]
      /\ run' = [run EXCEPT ![p] = AfterBlock(r)]
      /\ UNCHANGED <<csv, config, call>>

Step(p, calculators) ==
  \/ \E calculator \in calculators : Start(p, calculator)
  \/ GetExisting(p)
  \/ Load(p)
  \/ LoopStep(p)
  \/ Save(p)
  \/ AppendRead(p)
  \/ AppendWrite(p)
  \/ Cleanup(p)

\* Incremental runs one after the other over a growing lab export.
Next ==
  \/ \E row \in RowPool : AppendRow(row)
  \/ Step(1, Calculators)

Spec == Init /\ [][Next]_vars

\* The lab export gains a row while runs are under way.
AppendRowDuringRun(row) ==
  /\ ~AllIdle
  /\ Len(csv) < Len(FirstCsv) + MaxAppendedDuringRuns
  /\ csv' = Append(csv, row)
  /\ UNCHANGED <<files, run, config, call>>

\* Two incremental runs of one calculator started independently against the
\* same directory: nothing in update_incremental.py orders their file
\* accesses.
NextConc ==
  \/ \E row \in RowPool : AppendRowDuringRun(row)
  \/ \E p \in Procs : Step(p, {"Bortz"})

SpecConc == Init /\ [][NextConc]_vars

(***************************************************************************)
(* Runs against a store that cannot always be read.                        *)
(***************************************************************************)
\* The most records a store holds when it stops being readable.
MaxStored == 2

\* The store stops being readable: open or json.load on it raises (the file
\* is damaged, held by another program, or on a share that is away).
StoreUnreadable(calc) ==
  /\ files[STORE(calc)].exists
  /\ files[STORE(calc)].valid
  /\ Len(files[STORE(calc)].data) <= MaxStored
  /\ files' = [files EXCEPT ![STORE(calc)].valid = FALSE]
  /\ UNCHANGED <<csv, run, config, call>>

\* The store can be read again, with the content it had.
StoreReadable(calc) ==
  /\ files[STORE(calc)].exists
  /\ ~files[STORE(calc)].valid
  /\ files' = [files EXCEPT ![STORE(calc)].valid = TRUE]
  /\ UNCHANGED <<csv, run, config, call>>

NextStore ==
  \/ \E row \in RowPool : AppendRow(row)
  \/ Step(1, {"Bortz"})
  \/ StoreUnreadable("Bortz")
  \/ StoreReadable("Bortz")

SpecStore == Init /\ [][NextStore]_vars

(***************************************************************************)
(* Runs over a range of lab exports and birthdate settings.                *)
(***************************************************************************)
\* The most rows a drawn lab export has after its base.
MaxRows == 2

\* The readings of the worked example: glucose on two dates, albumin on the
\* first.
WorkedExample ==
  << Row("Glucose", "95", "mg/dL", "2024-01-10"),
     Row("Glucose", "110", "mg/dL", "2024-03-05"),
     Row("Albumin", "4.2", "g/dL", "2024-01-10") >>

\* A panel with every biomarker the Levine calculator requires: all but the
\* white blood cells measured on 2023-11-20, those on 2024-01-10.
LevinePanel ==
  << Row("Albumin", "4.4", "g/dL", "2023-11-20"),
     Row("Creatinine", "0.9", "mg/dL", "2023-11-20"),
     Row("Glucose", "92", "mg/dL", "2023-11-20"),
     Row("CRP", "<0.5", "mg/L", "2023-11-20"),
     Row("Lymphocytes", "31", "%", "2023-11-20"),
     Row("MCV", "90", "fL", "2023-11-20"),
     Row("RDW", "13.1", "%", "2023-11-20"),
     Row("Alkaline Phosphatase", "70", "U/L", "2023-11-20"),
     Row("WBC", "5.6", "K/uL", "2024-01-10") >>

\* The rows a lab export is drawn from: a biomarker neither calculator
\* knows on a date of its own, a raw age, a date that does not exist, a
\* later reading under an alias, a date written without its zero, and a
\* value that is not numeric.
BatchRowPool ==
  { Row("Ferritin", "50", "ng/mL", "2024-02-01"),
    Row("Age", "60", "years", "2024-01-10"),
    Row("Glucose", "99", "mg/dL", "2024-13-01"),
    Row("Glucose (Fasting)", "<110", "mg/dL", "2024-03-05"),
    Row("LYM", " 30 ", "%", "2024-1-10"),
    Row("Glucose", "n/a", "mg/dL", "2024-06-01") }

SeqsUpTo(S, n) == UNION {[1..k -> S] : k \in 0..n}

Exports ==
  {WorkedExample} \cup
  {base \o extra : base \in {<<>>, LevinePanel},
                   extra \in SeqsUpTo(BatchRowPool, MaxRows)}

\* BIRTHDATE of config.py: as shipped, emptied, or in another format.
BirthdateSettings == {BIRTHDATE, "", "07/08/1958"}

InitBatch ==
  /\ csv \in Exports
  /\ files = [f \in FileNames |-> NoFile]
  /\ run = [p \in Procs |-> Idle]
  /\ config \in [BIRTHDATE : BirthdateSettings]
  /\ call = NoCall

NextBatch == Step(1, {"Bortz", "Levine"})

SpecBatch == InitBatch /\ [][NextBatch]_vars

(***************************************************************************)
(* Functions applied on their own to a range of arguments.                 *)
(***************************************************************************)
\* The longest text a function is applied to.
MaxLen == 3

\* The characters of those texts: the comparison signs, a blank, a digit
\* and the decimal point.
TextChars == {"<", ">", "=", " ", "5", "."}

RECURSIVE Texts(_)
Texts(n) ==
  IF n = 0 THEN {""}
  ELSE LET shorter == Texts(n - 1)
       IN  shorter \cup {s \o c : s \in shorter, c \in TextChars}

\* The snapshots validate_levine_data is applied to: any of the required
\* ids and an id Levine does not use, each with some entry.
Snapshots ==
  {[id \in ids |-> [value |-> "1", date |-> 1]] :
     ids \in SUBSET (LEVINE_REQUIRED_BIOMARKERS \cup {"S-urea"})}

\* The values is_valid_numeric is applied to: numbers as laboratories write
\* them, the tokens they write for a missing result, in several cases,
\* the texts float() accepts for values that are no finite number, and text
\* that is no number.
NumericTexts ==
  {"", "42", "3.14", "-5.5", "1.5e-10", "1E5", "+.5", "5.", "1_0",
   "n/a", "N/A", "na", "NA", "pending", "Pending", "none", "None", "null",
   "NULL", DATA_NOT_AVAILABLE, "Data Not Available",
   "nan", "NaN", "inf", "-inf", "Infinity",
   "not a number", "12abc", "1e", "e5", "-", "."}

InitCalls ==
  /\ csv = <<>>
  /\ files = [f \in FileNames |-> NoFile]
  /\ run = [p \in Procs |-> Idle]
  /\ config = [BIRTHDATE |-> BIRTHDATE]
  /\ call \in
       {[fn |-> "clean_value", arg |-> x, done |-> FALSE, ret |-> ""] :
          x \in Texts(MaxLen) \cup {None}}
       \cup
       {[fn |-> "validate_levine_data", arg |-> data, done |-> FALSE,
         ret |-> <<>>] : data \in Snapshots}
       \cup
       {[fn |-> "is_valid_numeric", arg |-> x, done |-> FALSE, ret |-> FALSE] :
          x \in NumericTexts \cup {clean_value(t) : t \in Texts(MaxLen)}}

Call_clean_value ==
  /\ call.fn = "clean_value"
  /\ ~call.done
  /\ call' = [call EXCEPT !.done = TRUE, !.ret = clean_value(call.arg)]
  /\ UNCHANGED <<csv, files, run, config>>

Call_validate_levine_data ==
  /\ call.fn = "validate_levine_data"
  /\ ~call.done
  /\ call' = [call EXCEPT !.done = TRUE, !.ret = validate_levine_data(call.arg)]
  /\ UNCHANGED <<csv, files, run, config>>

Call_is_valid_numeric ==
  /\ call.fn = "is_valid_numeric"
  /\ ~call.done
  /\ call' = [call EXCEPT !.done = TRUE, !.ret = is_valid_numeric(call.arg)]
  /\ UNCHANGED <<csv, files, run, config>>

NextCalls ==
  \/ Call_clean_value
  \/ Call_validate_levine_data
  \/ Call_is_valid_numeric

SpecCalls == InitCalls /\ [][NextCalls]_vars

(***************************************************************************)
(* The claims.  A snapshot is the dict data of a run, built by the last    *)
(* iteration of the generator's loop for the cutoff date cutoff_str.       *)
(***************************************************************************)
Stores == {STORE("Bortz"), STORE("Levine")}

MapOf(calc) == IF calc = "Bortz" THEN BIOMARKER_MAP ELSE LEVINE_BIOMARKER_MAP

CutoffOf(p) == strptime(run[p].cutoff_str)

\* The loop of process p has built a snapshot for its cutoff date.
SnapshotBuilt(p) == CutoffOf(p) # ValueError

RowDate(row) == strptime(Strip(row.Date))
RowValue(row) == clean_value(Strip(row.Value))

\* The readings of rows that resolve to id, carry a numeric value and a
\* date that parses and is not after cutoff: the indices of the survivors.
Survivors(calc, rows, id, cutoff) ==
  {i \in 1..Len(rows) :
     /\ Strip(rows[i].Biomarker) \in DOMAIN MapOf(calc)
     /\ MapOf(calc)[Strip(rows[i].Biomarker)] = id
     /\ is_valid_numeric(RowValue(rows[i]))
     /\ RowDate(rows[i]) # ValueError
     /\ RowDate(rows[i]) <= cutoff}

\* datetime.max, as an ordinal: a cutoff no reading is after.
LastDay == ToOrdinal(9999, 12, 31)

MaxOf(S) == CHOOSE x \in S : \A y \in S : y <= x
MinOf(S) == CHOOSE x \in S : \A y \in S : x <= y

\* The survivors that carry the latest date.
Latest(calc, rows, id, cutoff) ==
  LET S == Survivors(calc, rows, id, cutoff)
      top == MaxOf({RowDate(rows[i]) : i \in S})
  IN  {i \in S : RowDate(rows[i]) = top}

\* C1 (latest-wins): in every snapshot built for a cutoff date, each id other
\* than 'age' carries the maximum date among the readings that resolve to it,
\* are numeric and are dated on or before the cutoff, and the value of a
\* reading of that date.
C1_LatestWins ==
  \A p \in Procs :
    SnapshotBuilt(p) =>
      \A id \in (DOMAIN run[p].data) \ {"age"} :
        LET rows == run[p].all_rows
            S == Survivors(run[p].calc, rows, id, CutoffOf(p))
        IN  /\ S # {}
            /\ run[p].data[id].date = MaxOf({RowDate(rows[i]) : i \in S})
            /\ \E i \in S : /\ RowDate(rows[i]) = run[p].data[id].date
                            /\ RowValue(rows[i]) = run[p].data[id].value

\* Readings of one id on three dates D1 < D2 < D3, the snapshot built for D2
\* holding the D2 reading.
C1_Witness ==
  \E p \in Procs :
    /\ SnapshotBuilt(p)
    /\ \E id \in (DOMAIN run[p].data) \ {"age"} :
         LET rows == run[p].all_rows
             S == Survivors(run[p].calc, rows, id, LastDay)
         IN  \E i, j, k \in S :
               /\ RowDate(rows[i]) < RowDate(rows[j])
               /\ RowDate(rows[j]) < RowDate(rows[k])
               /\ CutoffOf(p) = RowDate(rows[j])
               /\ run[p].data[id].date = RowDate(rows[j])
               /\ run[p].data[id].value = RowValue(rows[j])

\* C2 (cutoff exclusion): every entry of a snapshot other than 'age' has a
\* source date on or before the cutoff and is the date and value of a reading
\* dated on or before the cutoff.
C2_CutoffExclusion ==
  \A p \in Procs :
    SnapshotBuilt(p) =>
      \A id \in (DOMAIN run[p].data) \ {"age"} :
        /\ run[p].data[id].date <= CutoffOf(p)
        /\ \E i \in Survivors(run[p].calc, run[p].all_rows, id, CutoffOf(p)) :
             /\ RowDate(run[p].all_rows[i]) = run[p].data[id].date
             /\ RowValue(run[p].all_rows[i]) = run[p].data[id].value

\* A snapshot built while the export holds a numeric reading of one of its
\* ids dated after the cutoff.
C2_Witness ==
  \E p \in Procs :
    /\ SnapshotBuilt(p)
    /\ \E id \in (DOMAIN run[p].data) \ {"age"} :
         \E i \in Survivors(run[p].calc, run[p].all_rows, id, LastDay) :
           RowDate(run[p].all_rows[i]) > CutoffOf(p)

\* The value a snapshot holds for id when the survivors of the latest date
\* are more than one: stated for the last of them in input order ...
TieKeepsLast(p, id) ==
  LET rows == run[p].all_rows
      L == Latest(run[p].calc, rows, id, CutoffOf(p))
  IN  Cardinality(L) >= 2 => run[p].data[id].value = RowValue(rows[MaxOf(L)])

\* ... and for the first of them.
TieKeepsFirst(p, id) ==
  LET rows == run[p].all_rows
      L == Latest(run[p].calc, rows, id, CutoffOf(p))
  IN  Cardinality(L) >= 2 => run[p].data[id].value = RowValue(rows[MinOf(L)])

\* C3 as claimed (tie-break): of the surviving readings of one id that share
\* the latest date, the snapshot holds the value of the one that comes later
\* in the input.
C3_TieKeepsLater ==
  \A p \in Procs :
    SnapshotBuilt(p) =>
      \A id \in (DOMAIN run[p].data) \ {"age"} : TieKeepsLast(p, id)

\* C3 as amended: of the surviving readings of one id that share the latest
\* date, the snapshot holds the value of the one that comes first in the
\* input.
C3_TieKeepsEarlier ==
  \A p \in Procs :
    SnapshotBuilt(p) =>
      \A id \in (DOMAIN run[p].data) \ {"age"} : TieKeepsFirst(p, id)

\* A snapshot built over two surviving readings of one id that share the
\* latest date and differ in value.
C3_Witness ==
  \E p \in Procs :
    /\ SnapshotBuilt(p)
    /\ \E id \in (DOMAIN run[p].data) \ {"age"} :
         LET rows == run[p].all_rows
             L == Latest(run[p].calc, rows, id, CutoffOf(p))
         IN  \E i, j \in L : RowValue(rows[i]) # RowValue(rows[j])

\* The raw names the tests of BIOMARKER_MAP expect to share an id.
AliasGroups ==
  { <<"S-glucose", {"Glucose", "Glucose (Fasting)"}>>,
    <<"S-cholesterol", {"Cholesterol", "Total Cholesterol"}>> }

\* The rows whose raw name is in names, with a numeric value and a date that
\* parses and is not after cutoff.
NamedSurvivors(rows, names, cutoff) ==
  {i \in 1..Len(rows) :
     /\ Strip(rows[i].Biomarker) \in names
     /\ is_valid_numeric(RowValue(rows[i]))
     /\ RowDate(rows[i]) # ValueError
     /\ RowDate(rows[i]) <= cutoff}

\* C10 (alias collapsing): the readings under the aliases of one id form one
\* stream: a snapshot holds them under the canonical id only, and the entry is
\* the latest reading on or before the cutoff across all the aliases.
C10_AliasCollapsing ==
  \A p \in Procs :
    SnapshotBuilt(p) =>
      \A g \in AliasGroups :
        LET rows == run[p].all_rows
            S == NamedSurvivors(rows, g[2], CutoffOf(p))
        IN  /\ g[2] \cap DOMAIN run[p].data = {}
            /\ (S # {} /\ g[2] \subseteq DOMAIN MapOf(run[p].calc)) =>
                 /\ g[1] \in DOMAIN run[p].data
                 /\ run[p].data[g[1]].date = MaxOf({RowDate(rows[i]) : i \in S})
                 /\ \E i \in S : /\ RowDate(rows[i]) = run[p].data[g[1]].date
                                 /\ RowValue(rows[i]) = run[p].data[g[1]].value

\* A snapshot built over readings under two aliases of one id on different
\* dates, holding the later one.
C10_Witness ==
  \E p \in Procs :
    /\ SnapshotBuilt(p)
    /\ \E g \in AliasGroups :
         LET rows == run[p].all_rows
             S == NamedSurvivors(rows, g[2], CutoffOf(p))
         IN  \E i, j \in S :
               /\ Strip(rows[i].Biomarker) # Strip(rows[j].Biomarker)
               /\ RowDate(rows[i]) < RowDate(rows[j])
               /\ g[1] \in DOMAIN run[p].data
               /\ run[p].data[g[1]].value = RowValue(rows[j])

\* The entries of a list that carry date d, in order.
RECURSIVE EntriesOn(_, _)
EntriesOn(entries, d) ==
  IF entries = <<>> THEN <<>>
  ELSE (IF Head(entries).date = d THEN <<Head(entries)>> ELSE <<>>)
         \o EntriesOn(Tail(entries), d)

\* How often entry e occurs in a list.
RECURSIVE Count(_, _)
Count(entries, e) ==
  IF entries = <<>> THEN 0
  ELSE (IF Head(entries) = e THEN 1 ELSE 0) + Count(Tail(entries), e)

\* merge(P, F): the store an incremental merge of the fresh batch F into the
\* persisted list P writes (filter_new_dates_from_urls against the dates of P,
\* then append_to_batch_urls).
Merge(P, F) == Appended(P, filter_new_dates_from_urls(F, EntryDates(P)))

\* The run p has merged new entries into its store and not gone on yet.
JustMerged(p) ==
  /\ run[p].pc = "cleanup"
  /\ run[p].new_urls # <<>>
  /\ files[STORE(run[p].calc)].valid

\* C4 (merge append-only): every step leaves each date of a store in it with
\* exactly the record it had, so the dates of a store never shrink.
C4_MergeAppendOnly ==
  [][\A f \in Stores :
       \A d \in EntryDates(files[f].data) :
         EntriesOn(files'[f].data, d) = EntriesOn(files[f].data, d)]_vars

\* A merge has been done whose fresh batch held, for a date of the store, a
\* record other than the stored one.
C4_Witness ==
  \E p \in Procs :
    /\ JustMerged(p)
    /\ \E i \in 1..Len(run[p].results), j \in 1..Len(run[p].existing_data) :
         /\ run[p].results[i].date = run[p].existing_data[j].date
         /\ run[p].results[i].url # run[p].existing_data[j].url
    /\ \A j \in 1..Len(run[p].existing_data) :
         \E k \in 1..Len(files[STORE(run[p].calc)].data) :
           files[STORE(run[p].calc)].data[k] = run[p].existing_data[j]

\* C5 as claimed (merge uniqueness): a store holds each calendar date at most
\* once.
C5_UniqueCalendarDates ==
  \A f \in Stores :
    \A i, j \in 1..Len(files[f].data) :
      i # j => strptime(files[f].data[i].date) # strptime(files[f].data[j].date)

\* C6 (merge idempotence): merging a fresh batch into the result of merging
\* it changes nothing, for every store P and batch F of a run; and after a
\* run's merge the same batch holds no entry that is new to the store.
C6_MergeIdempotent ==
  \A p \in Procs :
    LET P == files[STORE(run[p].calc)].data
        F == run[p].results
    IN  /\ Merge(Merge(P, F), F) = Merge(P, F)
        /\ JustMerged(p) =>
             /\ filter_new_dates_from_urls(F, get_existing_dates(files[STORE(run[p].calc)])) = <<>>
             /\ Merge(P, F) = P

\* A run about to merge a batch that holds records of stored dates and
\* records of new dates.
C6_Witness ==
  \E p \in Procs :
    /\ run[p].pc = "append_read"
    /\ \E i, j \in 1..Len(run[p].results) :
         /\ run[p].results[i].date \in EntryDates(files[STORE(run[p].calc)].data)
         /\ run[p].results[j].date \notin EntryDates(files[STORE(run[p].calc)].data)

SortedByDate(entries) ==
  \A i, j \in 1..Len(entries) :
    i < j => strptime(entries[i].date) <= strptime(entries[j].date)

\* C7 (merge result): whenever a step writes a store, the list written holds
\* exactly the records the store held plus the records of the run's fresh
\* batch whose date the store did not hold, in ascending order of date.
C7_MergeResult ==
  [][\A f \in Stores :
       files'[f] # files[f] =>
         \E p \in Procs :
           LET P == files[f].data
               F == run[p].results
               N == {i \in 1..Len(F) : F[i].date \notin EntryDates(P)}
               new == [i \in 1..Len(F) |-> IF i \in N THEN <<F[i]>> ELSE <<>>]
               W == files'[f].data
           IN  /\ f = STORE(run[p].calc)
               /\ files'[f].exists /\ files'[f].valid
               /\ SortedByDate(W)
               /\ Len(W) = Len(P) + Cardinality(N)
               /\ \A e \in Range(W) \cup Range(P) \cup Range(F) :
                    Count(W, e) = Count(P, e)
                                    + Cardinality({i \in N : F[i] = e})]_vars

\* A merge has been done that put a new record before a stored one.
C7_Witness ==
  \E p \in Procs :
    /\ JustMerged(p)
    /\ run[p].existing_data # <<>>
    /\ files[STORE(run[p].calc)].data # run[p].existing_data \o run[p].new_urls
    /\ strptime(run[p].new_urls[1].date)
         < strptime(run[p].existing_data[Len(run[p].existing_data)].date)

\* C8 as claimed (no reprocessing): an incremental run builds no snapshot for
\* a cutoff date that its store already holds.
C8_NoReprocessing ==
  \A p \in Procs :
    SnapshotBuilt(p) => run[p].cutoff_str \notin run[p].existing_dates

\* C9 as claimed (concurrent merges): with two runs at once, no step takes a
\* record out of a store, and a store holds each date at most once.
NoLostUpdate ==
  \A f \in Stores :
    \A e \in Range(files[f].data) : e \in Range(files'[f].data)

DatesOnce(entries) ==
  \A i, j \in 1..Len(entries) : i # j => entries[i].date # entries[j].date

C9_ConcurrentMergesAtomic ==
  [][NoLostUpdate /\ \A f \in Stores : DatesOnce(files'[f].data)]_vars

\* The two halves of C9, each on its own.
C9_NoLostUpdate == [][NoLostUpdate]_vars
C9_UniqueDates == \A f \in Stores : DatesOnce(files[f].data)

(***************************************************************************)
(* Claims about the generators over the range of lab exports (SpecBatch).  *)
(***************************************************************************)
\* The last iteration of the loop of process p appended a record for its
\* cutoff date to results.
Emitted(p) ==
  /\ SnapshotBuilt(p)
  /\ run[p].results # <<>>
  /\ run[p].results[Len(run[p].results)].date = run[p].cutoff_str

\* The row carries a raw name that resolves to 'age'.
AgeRow(calc, row) ==
  /\ Strip(row.Biomarker) \in DOMAIN MapOf(calc)
  /\ MapOf(calc)[Strip(row.Biomarker)] = "age"

WithoutAgeRows(calc, rows) == SelectSeq(rows, LAMBDA row : ~AgeRow(calc, row))

\* text is the decimal writing of the tenth of a year nearest to the days
\* from birth to ref divided by 365.25.
IsAgeAt(text, birth, ref) ==
  LET days == ref - birth
      mag == IF days < 0 THEN 0 - days ELSE days
      low == (40 * mag) \div 1461
  IN  \E t \in {low, low + 1} :
        /\ 80 * mag - 2922 * t <= 1461
        /\ 2922 * t - 80 * mag <= 1461
        /\ text = (IF days < 0 THEN "-" ELSE "")
                    \o NatToStr(t \div 10) \o "." \o NatToStr(t % 10)

\* C11 (derived age): the snapshot of every emitted record holds the id 'age'
\* with the age at the record's cutoff date, calculated from the configured
\* birthdate, and its other entries are those built from the input without
\* the rows that resolve to 'age': a raw age never reaches a snapshot.
C11_DerivedAge ==
  \A p \in Procs :
    Emitted(p) =>
      LET r == run[p]
      IN  /\ "age" \in DOMAIN r.data
          /\ r.data["age"].date = CutoffOf(p)
          /\ IsAgeAt(r.data["age"].value, strptime(config.BIRTHDATE), CutoffOf(p))
          /\ [id \in (DOMAIN r.data) \ {"age"} |-> r.data[id]]
               = FoldRows(r.calc, WithoutAgeRows(r.calc, r.all_rows), EmptyDict,
                          CutoffOf(p))

\* A record emitted for a cutoff date on or after the date of a raw age
\* reading whose value is not the calculated age.
C11_Witness ==
  \E p \in Procs :
    /\ Emitted(p)
    /\ \E i \in 1..Len(run[p].all_rows) :
         /\ AgeRow(run[p].calc, run[p].all_rows[i])
         /\ is_valid_numeric(RowValue(run[p].all_rows[i]))
         /\ RowDate(run[p].all_rows[i]) # ValueError
         /\ RowDate(run[p].all_rows[i]) <= CutoffOf(p)
         /\ run[p].data["age"].value # RowValue(run[p].all_rows[i])

\* The generator called by process p has gone through every cutoff date:
\* results is its fresh output.
GeneratorDone(p) ==
  run[p].pc = "loop" /\ run[p].idx > Len(run[p].sorted_dates)

\* The canonical ids of a calculator other than 'age'.
IdsOf(calc) == {MapOf(calc)[name] : name \in DOMAIN MapOf(calc)} \ {"age"}

\* Some reading with a resolvable name other than age, a numeric value and
\* a date on or before the date written D.
NonEmptyAt(calc, rows, D) ==
  \E id \in IdsOf(calc) : Survivors(calc, rows, id, strptime(D)) # {}

\* For the strict formula, every required id other than the derived age has
\* such a reading.
PassesAt(calc, rows, D) ==
  calc = "Levine" =>
    \A id \in LEVINE_REQUIRED_BIOMARKERS \ {"age"} :
      Survivors(calc, rows, id, strptime(D)) # {}

BirthdateValid == strptime(config.BIRTHDATE) # ValueError

\* C12 (record emission): with a birthdate that parses, the fresh output of
\* a generator holds a record for the date D exactly when D is the date of
\* some input row, parses, has a reading of a resolvable name other than
\* age with a numeric value dated on or before it and, for Levine, has one
\* for every required id; the generator then always returns its list and
\* writes its output file.
C12_RecordEmission ==
  \A p \in Procs :
    BirthdateValid =>
      /\ GeneratorDone(p) =>
           EntryDates(run[p].results) =
             {D \in UniqueDates(run[p].all_rows) :
                /\ strptime(D) # ValueError
                /\ NonEmptyAt(run[p].calc, run[p].all_rows, D)
                /\ PassesAt(run[p].calc, run[p].all_rows, D)}
      /\ run[p].pc \in {"append_read", "append_write", "cleanup"} =>
           files[TEMP(run[p].calc)] = JsonFile(run[p].results)

\* A fresh output with a record, from an input one of whose dates belongs
\* only to a row of an unresolved name and has no reading on or before it:
\* that date was skipped.
C12_Witness ==
  \E p \in Procs :
    /\ BirthdateValid
    /\ GeneratorDone(p)
    /\ run[p].results # <<>>
    /\ \E i \in 1..Len(run[p].all_rows) :
         LET D == Strip(run[p].all_rows[i].Date)
         IN  /\ Strip(run[p].all_rows[i].Biomarker) \notin DOMAIN MapOf(run[p].calc)
             /\ strptime(D) # ValueError
             /\ ~NonEmptyAt(run[p].calc, run[p].all_rows, D)
             /\ D \notin EntryDates(run[p].results)

\* C13 (fresh output ordering): for an input whose date strings all parse,
\* the records of the fresh output are in strictly ascending order of the
\* calendar dates they carry (so no calendar date has two records).
C13_FreshOutputOrdering ==
  \A p \in Procs :
    ( /\ GeneratorDone(p)
      /\ \A D \in UniqueDates(run[p].all_rows) : strptime(D) # ValueError )
    => \A i, j \in 1..Len(run[p].results) :
         i < j => strptime(run[p].results[i].date) < strptime(run[p].results[j].date)

(***************************************************************************)
(* Claims about functions applied on their own (SpecCalls).                *)
(***************************************************************************)
Returned(fn) == call.fn = fn /\ call.done

\* C14 (validation result): validate_levine_data(snapshot) answers ok exactly
\* when every required id is a key of the snapshot, whatever other ids it
\* holds, and its list of missing ids is the required ids that are no keys,
\* each once, in ascending order.
C14_ValidationResult ==
  Returned("validate_levine_data") =>
    LET ok == call.ret[1]
        missing == call.ret[2]
    IN  /\ ok = (LEVINE_REQUIRED_BIOMARKERS \subseteq DOMAIN call.arg)
        /\ Range(missing) = LEVINE_REQUIRED_BIOMARKERS \ DOMAIN call.arg
        /\ \A i, j \in 1..Len(missing) : i < j => StrLess(missing[i], missing[j])

\* A snapshot with every required id and one that is not required: valid.
C14_Witness ==
  /\ Returned("validate_levine_data")
  /\ (DOMAIN call.arg) \ LEVINE_REQUIRED_BIOMARKERS # {}
  /\ call.ret = <<TRUE, <<>> >>

\* C20 (sanitization idempotence): cleaning a cleaned value changes nothing,
\* clean_value(clean_value(x)) = clean_value(x), and the empty string and
\* None are cleaned to the empty string.
C20_SanitizationIdempotence ==
  Returned("clean_value") =>
    /\ clean_value(call.ret) = call.ret
    /\ (call.arg = None \/ call.arg = "") => call.ret = ""

\* A value with a comparison sign followed by blanks, cleaned to a text that
\* is neither the value nor empty.
C20_Witness ==
  /\ Returned("clean_value")
  /\ call.arg # None
  /\ Len(call.arg) >= 2
  /\ Head(call.arg) \in {"<", ">", "="}
  /\ Head(Tail(call.arg)) = " "
  /\ call.ret # ""

\* The text t occurs in the text s.
Contains(s, t) ==
  \E i \in 1..(Len(s) - Len(t) + 1) : SubSeq(s, i, i + Len(t) - 1) = t

\* The Levine query of url holds the parameter id=value.
LevineEncodes(url, id, value) ==
  /\ Len(url) > Len(LEVINE_BASE_URL)
  /\ SubSeq(url, 1, Len(LEVINE_BASE_URL)) = LEVINE_BASE_URL
  /\ Contains("&" \o SubSeq(url, Len(LEVINE_BASE_URL) + 1, Len(url)) \o "&",
              "&" \o id \o "=" \o value \o "&")

\* Every id Levine requires other than the derived age has a reading on or
\* before the date written D, which parses.
CompleteAt(rows, D) ==
  /\ strptime(D) # ValueError
  /\ \A id \in LEVINE_REQUIRED_BIOMARKERS \ {"age"} :
       Survivors("Levine", rows, id, strptime(D)) # {}

\* C15 (strict completeness): with a birthdate that parses, an iteration of
\* the loop of get_all_levine_urls over a cutoff date whose snapshot lacks a
\* required id appends nothing and goes on to the next cutoff date; one over
\* a complete snapshot appends a record for that date whose query encodes
\* all ten required ids.
C15_StrictCompleteness ==
  [][\A p \in Procs :
       ( /\ run[p].calc = "Levine"
         /\ run[p].pc = "loop"
         /\ run[p].idx <= Len(run[p].sorted_dates)
         /\ run'[p] # run[p]
         /\ BirthdateValid )
       => LET D == run[p].sorted_dates[run[p].idx]
          IN  /\ run'[p].pc = "loop"
              /\ run'[p].idx = run[p].idx + 1
              /\ IF CompleteAt(run[p].all_rows, D)
                 THEN /\ Len(run'[p].results) = Len(run[p].results) + 1
                      /\ SubSeq(run'[p].results, 1, Len(run[p].results))
                           = run[p].results
                      /\ LET rec == run'[p].results[Len(run'[p].results)]
                         IN  /\ rec.date = D
                             /\ LEVINE_REQUIRED_BIOMARKERS \subseteq DOMAIN run'[p].data
                             /\ \A id \in LEVINE_REQUIRED_BIOMARKERS :
                                  LevineEncodes(rec.url, id, run'[p].data[id].value)
                 ELSE run'[p].results = run[p].results]_vars

\* get_all_levine_urls has emitted a record for a cutoff date after skipping
\* an earlier one whose snapshot lacked a single required id.
C15_Witness ==
  \E p \in Procs :
    /\ run[p].calc = "Levine"
    /\ Emitted(p)
    /\ \E k \in 1..(run[p].idx - 1) :
         LET D == run[p].sorted_dates[k]
         IN  /\ strptime(D) # ValueError
             /\ strptime(D) < CutoffOf(p)
             /\ D \notin EntryDates(run[p].results)
             /\ Cardinality({id \in LEVINE_REQUIRED_BIOMARKERS \ {"age"} :
                  Survivors("Levine", run[p].all_rows, id, strptime(D)) = {}}) = 1

\* The values of a snapshot, id by id.
ValuesOf(data) == [id \in DOMAIN data |-> data[id].value]

\* C16 (worked example): for the readings (Glucose, 95, 2024-01-10),
\* (Glucose, 110, 2024-03-05), (Albumin, 4.2, 2024-01-10) and the birthdate
\* 1958-07-08 the cutoff dates are 2024-01-10 and 2024-03-05 in this order,
\* the first snapshot is {S-glucose: 95, S-albumin: 4.2, age: 65.5} and the
\* second {S-glucose: 110, S-albumin: 4.2, age: 65.7}.
C16_WorkedExample ==
  \A p \in Procs :
    ( /\ run[p].all_rows = WorkedExample
      /\ config.BIRTHDATE = "1958-07-08" )
    => /\ run[p].sorted_dates = <<"2024-01-10", "2024-03-05">>
       /\ run[p].cutoff_str = "2024-01-10" =>
            ValuesOf(run[p].data) =
              [id \in {"S-glucose", "S-albumin", "age"} |->
                 CASE id = "S-glucose" -> "95"
                   [] id = "S-albumin" -> "4.2"
                   [] id = "age" -> "65.5"]
       /\ run[p].cutoff_str = "2024-03-05" =>
            ValuesOf(run[p].data) =
              [id \in {"S-glucose", "S-albumin", "age"} |->
                 CASE id = "S-glucose" -> "110"
                   [] id = "S-albumin" -> "4.2"
                   [] id = "age" -> "65.7"]

\* get_all_urls has emitted the record of the second cutoff date of the
\* worked example.
C16_Witness ==
  \E p \in Procs :
    /\ run[p].calc = "Bortz"
    /\ run[p].all_rows = WorkedExample
    /\ config.BIRTHDATE = "1958-07-08"
    /\ run[p].cutoff_str = "2024-03-05"
    /\ Emitted(p)
    /\ Len(run[p].results) = 2

(***************************************************************************)
(* Claims about a store that cannot be read (SpecStore).                   *)
(***************************************************************************)
\* What a store file holds, readable or not.
Content(file) == <<file.exists, file.data>>

\* C17 (corrupt store): once a run has failed to read its store, at
\* get_existing_dates or at the reload of append_to_batch_urls, no step
\* changes what the store holds, and a failed reload ends
\* append_to_batch_urls without a write.
C17_CorruptStore ==
  [][\A p \in Procs :
       LET store == STORE(run[p].calc)
       IN  /\ run[p].read_error =>
                Content(files'[store]) = Content(files[store])
           /\ ( /\ run[p].pc = "append_read"
                /\ run'[p] # run[p]
                /\ ReadFails(files[store]) )
              => /\ run'[p].pc = "cleanup"
                 /\ run'[p].read_error
                 /\ files' = files]_vars

\* The part of it that holds: a reload that fails ends append_to_batch_urls
\* without a write, so a store that cannot be read when it is reloaded is
\* left as it is.
C17_FailedReload ==
  [][\A p \in Procs :
       ( /\ run[p].pc = "append_read"
         /\ run'[p] # run[p]
         /\ ReadFails(files[STORE(run[p].calc)]) )
       => /\ run'[p].pc = "cleanup"
          /\ run'[p].read_error
          /\ files' = files]_vars

(***************************************************************************)
(* Claims about the generators over the range of lab exports (SpecBatch),  *)
(* continued.                                                              *)
(***************************************************************************)
\* C18 (fatal birthdate error): with a configured birthdate that does not
\* parse, for every input, a generator never runs its loop to the end to
\* return a list, emits no record and does not write its output file.
C18_FatalBirthdateError ==
  ~BirthdateValid =>
    \A p \in Procs :
      /\ ~GeneratorDone(p)
      /\ run[p].results = <<>>
      /\ ~files[TEMP(run[p].calc)].exists

\* The part of it that holds: no record is emitted and the store stays
\* unwritten.
C18_NoRecord ==
  ~BirthdateValid =>
    \A p \in Procs :
      /\ run[p].results = <<>>
      /\ \A calc \in {"Bortz", "Levine"} : ~files[STORE(calc)].exists

\* The rows whose measurement date parses.
WellDated(rows) == SelectSeq(rows, LAMBDA row : RowDate(row) # ValueError)

\* The records a generator emits over the cutoff strings dates, in order,
\* for the rows given and a birthdate that parses.
RECURSIVE FreshFrom(_, _, _)
FreshFrom(calc, rows, dates) ==
  IF dates = <<>> THEN <<>>
  ELSE LET D == Head(dates)
           data == FoldRows(calc, rows, EmptyDict, strptime(D))
           aged == WithAge(calc, data, strptime(config.BIRTHDATE), strptime(D))
       IN  (IF /\ strptime(D) # ValueError
               /\ DOMAIN data # {}
               /\ Emits(calc, aged)
            THEN <<UrlEntry(calc, D, aged)>> ELSE <<>>)
             \o FreshFrom(calc, rows, Tail(dates))

FreshOutput(calc, rows) == FreshFrom(calc, rows, SortedStrings(UniqueDates(rows)))

\* C19 (malformed date recovery): with a birthdate that parses, the fresh
\* output of a generator is the output it gives for the input without the
\* rows whose date does not parse: such a row reaches no snapshot, its date
\* string gets no record, and every other cutoff date is evaluated and
\* emitted as if the row were absent.
C19_MalformedDateRecovery ==
  \A p \in Procs :
    (BirthdateValid /\ GeneratorDone(p)) =>
      /\ run[p].results = FreshOutput(run[p].calc, WellDated(run[p].all_rows))
      /\ \A i \in 1..Len(run[p].results) :
           strptime(run[p].results[i].date) # ValueError

\* A fresh output with a record, from an input with a row of a known
\* biomarker and a numeric value whose date does not parse.
C19_Witness ==
  \E p \in Procs :
    /\ BirthdateValid
    /\ GeneratorDone(p)
    /\ run[p].results # <<>>
    /\ \E i \in 1..Len(run[p].all_rows) :
         /\ Strip(run[p].all_rows[i].Biomarker) \in DOMAIN MapOf(run[p].calc)
         /\ is_valid_numeric(RowValue(run[p].all_rows[i]))
         /\ RowDate(run[p].all_rows[i]) = ValueError

\* The comparison signs a laboratory puts around a value.
Markers == {"<", ">", "="}

RECURSIVE TrimLeft(_)
TrimLeft(s) ==
  IF s # "" /\ Head(s) \in Markers \cup Whitespace THEN TrimLeft(Tail(s)) ELSE s

RECURSIVE TrimRight(_)
TrimRight(s) ==
  IF s # "" /\ Char(s, Len(s)) \in Markers \cup Whitespace
  THEN TrimRight(SubSeq(s, 1, Len(s) - 1))
  ELSE s

\* C21 (sanitizer result): clean_value(x) is x without the comparison signs
\* and the whitespace at its two ends, every character between them kept in
\* order, and it is the empty string for the empty string and for None.
C21_SanitizerResult ==
  Returned("clean_value") =>
    call.ret = (IF call.arg = None \/ call.arg = "" THEN ""
                ELSE TrimRight(TrimLeft(call.arg)))

\* The tokens a laboratory writes for a result that is missing.
SentinelTokens ==
  {"n/a", "na", "pending", "none", "null", "data not available"}

\* The characters of a decimal or scientific-notation number.
NumberChars == Digits \cup {"+", "-", ".", "e", "E"}

RECURSIVE OnlyChars(_, _)
OnlyChars(s, S) == s = "" \/ (Head(s) \in S /\ OnlyChars(Tail(s), S))

\* C22 (numeric classification): is_valid_numeric(s) is false for the empty
\* string and for each token of a missing result in any letter case, and it
\* is true only for a finite decimal or scientific-notation number, so that
\* nan, inf and mixed text such as 12abc are rejected.
C22_NumericClassification ==
  Returned("is_valid_numeric") =>
    /\ (call.arg = "" \/ Lower(call.arg) \in SentinelTokens) => ~call.ret
    /\ call.ret => /\ OnlyChars(call.arg, NumberChars \cup {"_"})
                   /\ \E i \in 1..Len(call.arg) : Char(call.arg, i) \in Digits

\* What holds of the code: the empty string, the tokens and text float()
\* does not accept are rejected.
C22_SentinelsRejected ==
  Returned("is_valid_numeric") =>
    /\ (call.arg = "" \/ Lower(call.arg) \in SentinelTokens) => ~call.ret
    /\ call.arg \in {"12abc", "not a number", "1e", "e5", "-", "."} => ~call.ret

\* The url of the record emitted last.
LastUrl(p) == run[p].results[Len(run[p].results)].url

BaseOf(calc) == IF calc = "Bortz" THEN BASE_URL ELSE LEVINE_BASE_URL

HasPrefix(s, t) == Len(t) <= Len(s) /\ SubSeq(s, 1, Len(t)) = t

\* The text of s before its first c (all of s if it has none) and the text
\* after it.
RECURSIVE Before(_, _)
Before(s, c) ==
  IF s = "" \/ Head(s) = c THEN "" ELSE Head(s) \o Before(Tail(s), c)

After(s, c) ==
  LET n == Len(Before(s, c))
  IN  IF n >= Len(s) THEN "" ELSE SubSeq(s, n + 2, Len(s))

\* The parts of s between its '&' signs.
RECURSIVE SplitAmp(_)
SplitAmp(s) ==
  IF Len(Before(s, "&")) = Len(s) THEN <<s>>
  ELSE <<Before(s, "&")>> \o SplitAmp(After(s, "&"))

\* The parameters of an emitted url, after the base of its calculator.
QueryParts(p) ==
  SplitAmp(SubSeq(LastUrl(p), Len(BaseOf(run[p].calc)) + 1, Len(LastUrl(p))))

\* C23 (encoding determinism): for both calculators the url of an emitted
\* record is the calculator's base followed by one parameter for every id of
\* the snapshot, each id once, in ascending order of the ids, joined by '&':
\* the string depends on the contents of the snapshot and not on the order
\* in which the readings were met.
C23_EncodingDeterminism ==
  \A p \in Procs :
    Emitted(p) =>
      LET parts == QueryParts(p)
          ids == [i \in 1..Len(parts) |-> Before(parts[i], "=")]
      IN  /\ HasPrefix(LastUrl(p), BaseOf(run[p].calc))
          /\ Range(ids) = DOMAIN run[p].data
          /\ Len(parts) = Cardinality(DOMAIN run[p].data)
          /\ \A i, j \in 1..Len(ids) : i < j => StrLess(ids[i], ids[j])
          /\ \A i \in 1..Len(parts) :
               /\ Len(ids[i]) < Len(parts[i])
               /\ HasPrefix(After(parts[i], "="), run[p].data[ids[i]].value)

\* A record with three ids or more whose readings were met in another order
\* than that of their ids.
C23_Witness ==
  \E p \in Procs :
    /\ Emitted(p)
    /\ Cardinality(DOMAIN run[p].data) >= 3
    /\ \E i, j \in 1..Len(run[p].all_rows) :
         /\ i < j
         /\ Strip(run[p].all_rows[i].Biomarker) \in DOMAIN MapOf(run[p].calc)
         /\ Strip(run[p].all_rows[j].Biomarker) \in DOMAIN MapOf(run[p].calc)
         /\ Resolve(MapOf(run[p].calc), Strip(run[p].all_rows[i].Biomarker)) \in DOMAIN run[p].data
         /\ Resolve(MapOf(run[p].calc), Strip(run[p].all_rows[j].Biomarker)) \in DOMAIN run[p].data
         /\ StrLess(Resolve(MapOf(run[p].calc), Strip(run[p].all_rows[j].Biomarker)),
                    Resolve(MapOf(run[p].calc), Strip(run[p].all_rows[i].Biomarker)))

\* C24 (unit normalization): normalize_unit turns the unit '%' into '%25'
\* and leaves every other unit as it is, so in the url of the Bortz
\* calculator a percent unit is escaped twice, to '%2525', and every other
\* unit once.
C24_UnitNormalization ==
  \A p \in Procs :
    (Emitted(p) /\ run[p].calc = "Bortz") =>
      \A id \in DOMAIN run[p].data :
        LET info == run[p].data[id]
            escaped == IF info.unit = "%" THEN "%2525"
                       ELSE IF info.unit = "mg/dL" THEN "mg%2FdL"
                       ELSE quote(info.unit)
        IN  \E i \in 1..Len(QueryParts(p)) :
              QueryParts(p)[i] = id \o "=" \o quote(info.value) \o "_" \o escaped

\* A Bortz record with a percent unit and a unit with a character that is
\* escaped.
C24_Witness ==
  \E p \in Procs :
    /\ Emitted(p)
    /\ run[p].calc = "Bortz"
    /\ \E id \in DOMAIN run[p].data : run[p].data[id].unit = "%"
    /\ \E id \in DOMAIN run[p].data : run[p].data[id].unit = "mg/dL"

\* The parseable dates of the input of process p that are later than D.
LaterDates(p, D) ==
  {E \in UniqueDates(run[p].all_rows) :
     strptime(E) # ValueError /\ strptime(E) > strptime(D)}

\* C27 (monotone emission): within one batch run the ids of the snapshot of
\* an emitted record are ids of the snapshot of every later parseable date
\* of the input, and when the run has gone through its dates a record
\* emitted for a date D comes with a record for every later parseable
\* measurement date, for the Bortz and for the Levine calculator.
C27_MonotoneEmission ==
  \A p \in Procs :
    /\ Emitted(p) =>
         \A E \in LaterDates(p, run[p].cutoff_str) :
           (DOMAIN run[p].data) \ {"age"} \subseteq
             DOMAIN FoldRows(run[p].calc, run[p].all_rows, EmptyDict, strptime(E))
    /\ GeneratorDone(p) =>
         \A D \in EntryDates(run[p].results) :
           LaterDates(p, D) \subseteq EntryDates(run[p].results)

\* A Levine run that went through its dates: one skipped as incomplete, a
\* later one emitted and one later still emitted as well.
C27_Witness ==
  \E p \in Procs :
    /\ GeneratorDone(p)
    /\ run[p].calc = "Levine"
    /\ \E D \in EntryDates(run[p].results) :
         /\ LaterDates(p, D) # {}
         /\ \E E \in UniqueDates(run[p].all_rows) :
              /\ strptime(E) # ValueError
              /\ strptime(E) < strptime(D)
              /\ E \notin EntryDates(run[p].results)

\* The records a store file holds (none if there is no file).
Persisted(file) == IF file.exists THEN file.data ELSE <<>>

\* The input rows has grown by appending later readings only: the store
\* holds the full output for a first part of the rows, and every row after
\* that part carries a date that is later than every date of the store.
AppendLaterGrowth(calc, file, rows) ==
  \E k \in 0..Len(rows) :
    /\ Persisted(file) = FreshOutput(calc, SubSeq(rows, 1, k))
    /\ \A i \in (k + 1)..Len(rows) :
         /\ RowDate(rows[i]) # ValueError
         /\ \A D \in EntryDates(Persisted(file)) : strptime(D) < RowDate(rows[i])

\* The step of process p that ends the block of one calculator in main
\* as far as its store goes: nothing new to add, or the store written.
BlockSettles(p) ==
  \/ run[p].pc = "existing" /\ run'[p].pc # "load"
  \/ GeneratorDone(p) /\ run'[p].pc = "cleanup"
  \/ run[p].pc = "append_write"

\* C28 (incremental equals full regeneration): when the input has only
\* gained readings dated after every stored date, the store an incremental
\* run leaves is, record for record, the output of the generator over the
\* whole input.
C28_IncrementalEqualsFull ==
  [][\A p \in Procs :
       ( /\ BlockSettles(p)
         /\ AppendLaterGrowth(run[p].calc, files[STORE(run[p].calc)], csv) )
       => Persisted(files'[STORE(run[p].calc)]) = FreshOutput(run[p].calc, csv)]_vars

\* Every date of the rows is written with four, two and two digits.
ZeroPadded(rows) ==
  \A i \in 1..Len(rows) : Len(Strip(rows[i].Date)) = 10

\* What holds of the code: the same, for inputs whose dates are all written
\* with their zeros.
C28_EqualWhenZeroPadded ==
  [][\A p \in Procs :
       ( /\ BlockSettles(p)
         /\ ZeroPadded(csv)
         /\ AppendLaterGrowth(run[p].calc, files[STORE(run[p].calc)], csv) )
       => Persisted(files'[STORE(run[p].calc)]) = FreshOutput(run[p].calc, csv)]_vars

(***************************************************************************)
(* generate_levine_url.py: the Levine URL for one cutoff date.             *)
(***************************************************************************)
\* cutoff_date = None: no --date was given.
NoCutoff == 0 - 2

\* The body of `for row in reader` of generate_levine_url.
generate_levine_url_row(data, row, cutoff_date) ==
  LET raw_marker == Strip(row.Biomarker)
  IN  IF raw_marker \notin DOMAIN LEVINE_BIOMARKER_MAP THEN data
      ELSE
      LET marker_id == LEVINE_BIOMARKER_MAP[raw_marker]
      IN  IF marker_id = "age" THEN data
          ELSE
          LET value == clean_value(Strip(row.Value))
          IN  IF ~is_valid_numeric(value) THEN data
              ELSE
              LET unit == Strip(row.Unit)
                  date_obj == strptime(Strip(row.Date))
              IN  IF date_obj = ValueError THEN data
                  ELSE IF cutoff_date # NoCutoff /\ date_obj > cutoff_date THEN data
                  ELSE IF \/ marker_id \notin DOMAIN data
                          \/ date_obj > data[marker_id].date
                       THEN DictPut(data, marker_id,
                              [value |-> value, unit |-> unit, date |-> date_obj])
                       ELSE data

RECURSIVE generate_levine_url_rows(_, _, _)
generate_levine_url_rows(rows, data, cutoff_date) ==
  IF rows = <<>> THEN data
  ELSE generate_levine_url_rows(Tail(rows),
         generate_levine_url_row(data, Head(rows), cutoff_date), cutoff_date)

\* most_recent_date = max(info['date'] for info in data.values())
most_recent_date(data) ==
  LET dates == {data[id].date : id \in DOMAIN data}
  IN  CHOOSE d \in dates : \A e \in dates : e <= d

\* The tail of generate_levine_url, once the age has been added to the
\* data: validation, then the parameters in sorted key order.
levine_final_url(data, keys) ==
  IF ~validate_levine_data(data)[1] THEN None
  ELSE LEVINE_BASE_URL
         \o JoinAmp([i \in 1..Len(keys) |->
                      keys[i] \o "=" \o data[keys[i]].value])

\* data['age'] = {value: calculate_age(birthdate, most_recent_date), ...}
levine_with_age(data, recent) ==
  DictPut(data, "age",
    [value |-> calculate_age(get_birthdate, recent),
     unit |-> "years", date |-> recent])

\* generate_levine_url after the reading loop: nothing without data or
\* without a birthdate, else the age at the most recent reading is added.
levine_url_of(data) ==
  IF DOMAIN data = {} THEN None
  ELSE IF get_birthdate = ValueError THEN None
  ELSE levine_final_url(levine_with_age(data, most_recent_date(data)),
                        SortedStrings(DOMAIN data \cup {"age"}))

\* cutoff_date of generate_levine_url: strptime of --date, or no cutoff.
levine_cutoff(cutoff_date_str) ==
  IF cutoff_date_str = None \/ cutoff_date_str = ""
  THEN NoCutoff ELSE strptime(cutoff_date_str)

\* generate_levine_url(csv_file, output_file, cutoff_date_str): the URL
\* returned, or None.
generate_levine_url(rows, cutoff_date_str) ==
  IF levine_cutoff(cutoff_date_str) = ValueError THEN None
  ELSE levine_url_of(
         generate_levine_url_rows(rows, EmptyDict, levine_cutoff(cutoff_date_str)))

\* generate_levine_url.py --date cutoff_date_str, run once over the export
\* the batch generator has gone through: the URL is written to the output
\* file and returned.
GenerateLevineUrl(cutoff_date_str) ==
  LET final_url == generate_levine_url(csv, cutoff_date_str)
  IN  /\ call = NoCall
      /\ run[1].calc = "Levine"
      /\ GeneratorDone(1) \/ (run[1].pc = "cleanup" /\ run[1].new_urls = <<>>)
      /\ call' = [fn |-> "generate_levine_url", arg |-> cutoff_date_str,
                  done |-> TRUE, ret |-> final_url]
      /\ files' = IF final_url = None THEN files
                  ELSE [files EXCEPT ![LEVINE_URL_FILE] = JsonFile(<<final_url>>)]
      /\ UNCHANGED <<csv, run, config>>

NextSingle ==
  \/ Step(1, {"Levine"})
  \/ \E D \in UniqueDates(csv) : GenerateLevineUrl(D)

SpecSingle == InitBatch /\ [][NextSingle]_vars

(***************************************************************************)
(* Claims about the single-date generator (SpecSingle).                    *)
(***************************************************************************)
\* The record of the batch output for the date string D, if there is one.
RecordsFor(results, D) == {results[i].url : i \in {j \in 1..Len(results) : results[j].date = D}}

\* The batch generator of process 1 has gone through its dates, or given
\* up: results is its output.
BatchOver ==
  GeneratorDone(1) \/ run[1].pc \in {"append_read", "append_write", "cleanup"}

\* C29 (single-date and batch generators agree): for every input and every
\* measurement date D of the input, generate_levine_url with the cutoff D
\* returns the url of the record get_all_levine_urls emits for D, with the
\* same values and the same derived age, and returns nothing exactly when
\* the batch output has no record for D.
C29_SingleAgreesWithBatch ==
  (Returned("generate_levine_url") /\ BatchOver) =>
    IF RecordsFor(run[1].results, call.arg) = {}
    THEN call.ret = None
    ELSE RecordsFor(run[1].results, call.arg) = {call.ret}

\* What holds of the code: the two agree on whether there is a url for D,
\* and on the url when the snapshot has a reading dated D.
C29_AgreeOnEmission ==
  (Returned("generate_levine_url") /\ BatchOver) =>
    /\ (RecordsFor(run[1].results, call.arg) = {}) = (call.ret = None)
    /\ ( /\ call.ret # None
         /\ \E id \in DOMAIN FoldRows("Levine", csv, EmptyDict, strptime(call.arg)) :
              FoldRows("Levine", csv, EmptyDict, strptime(call.arg))[id].date
                = strptime(call.arg) )
       => RecordsFor(run[1].results, call.arg) = {call.ret}

(***************************************************************************)
(* process_batch_urls.py, process_levine_batch_urls.py and                 *)
(* open_batch_urls.py: the scores of the stored URLs are collected in a    *)
(* history file.  A row of that file is a record [date, score, notes] for  *)
(* the columns 'Measurement Date', '... Age' and 'Notes'.  The locals of   *)
(* the program under way are kept in call.                                 *)
(***************************************************************************)
\* --wait: the seconds to wait for a page; the score is read twice a second.
wait_time == 1

ScoreRow(date, score, notes) == [date |-> date, score |-> score, notes |-> notes]

\* age_span.text.strip(): nothing, the placeholder, or a score.
PageTexts == {"", "00", "52.3"}

\* age_value and age_value != "00" and age_value.replace('.', '').isdigit()
IsResult(age_value) ==
  /\ age_value # ""
  /\ age_value # "00"
  /\ RemoveChar(age_value, ".") # ""
  /\ AllDigits(RemoveChar(age_value, "."))

\* Mutant of IsNewDate: every stored URL is taken as new.
IsNewDate_Always(date, processed_dates) == TRUE

\* entry['date'] not in processed_dates
IsNewDate(date, processed_dates) == date \notin processed_dates

\* The lab export the URLs were generated from: a first reading (for
\* Levine, a complete panel) and the rows gained since.
ExtraRows == << Row("LYM", " 30 ", "%", "2024-1-10") >>

ExportFor(calc, k) ==
  (IF calc = "Bortz" THEN <<Row("Glucose", "95", "mg/dL", "2024-03-05")>>
   ELSE LevinePanel) \o SubSeq(ExtraRows, 1, k)

\* What a batch file holds: the output of generate_batch_urls.py or
\* generate_levine_batch_urls.py over the export with k of the rows gained,
\* or the store update_incremental.py builds from it (merged).
BatchFile(calc, k, merged) ==
  IF merged THEN SortByDate(FreshOutput(calc, ExportFor(calc, k)))
  ELSE FreshOutput(calc, ExportFor(calc, k))

\* The locals of process_urls_automated / process_levine_urls_automated
\* while the URLs are visited.
Visiting(calc, incremental, urls_data) ==
  [fn |-> "process_urls_automated", calc |-> calc, incremental |-> incremental,
   urls_data |-> urls_data, i |-> 1, attempt |-> 0, pc |-> "visit",
   results |-> <<>>, done |-> FALSE, ret |-> FALSE]

\* The function has returned ret.
Returns(c, ret) ==
  [fn |-> c.fn, calc |-> c.calc, incremental |-> c.incremental,
   done |-> TRUE, ret |-> ret]

NoProgram == IF call = NoCall THEN TRUE ELSE call.done

\* The batch file of a calculator is written anew: its generator or
\* update_incremental.py has run over a longer export.
BatchFileWritten(calc, k, merged) ==
  /\ NoProgram
  /\ files[STORE(calc)].exists
  /\ Len(BatchFile(calc, k, merged)) >= Len(files[STORE(calc)].data)
  /\ files' = [files EXCEPT ![STORE(calc)] = JsonFile(BatchFile(calc, k, merged))]
  /\ UNCHANGED <<csv, run, config, call>>

\* process_urls_automated, lines 50-98: the URLs are loaded, in incremental
\* mode those with a row in the output file are dropped, and the browser
\* is started.
ProcessStart(calc, incremental, driver_ok) ==
  LET batch == files[STORE(calc)]
      out == files[HISTORY(calc)]
      processed_dates == EntryDates(out.data)
      new == SelectSeq(batch.data, LAMBDA entry : IsNewDate(entry.date, processed_dates))
      filtered == incremental /\ out.exists /\ out.valid
      urls_data == IF filtered THEN new ELSE batch.data
      c == Visiting(calc, incremental, urls_data)
  IN  /\ NoProgram
      /\ call' = IF ~batch.exists \/ ~batch.valid THEN Returns(c, FALSE)
                 ELSE IF filtered /\ urls_data = <<>> THEN Returns(c, TRUE)
                 ELSE IF ~driver_ok THEN Returns(c, FALSE)
                 ELSE c
      /\ UNCHANGED <<csv, files, run, config>>

\* Mutant of Recorded: the loop goes on without a row for the entry.
Recorded_NoRow(c, score, notes) ==
  [c EXCEPT !.i = @ + 1, !.attempt = 0, !.pc = "visit"]

\* The row appended to results for the entry under way; the loop goes on
\* to the next entry.
Recorded(c, score, notes) ==
  [c EXCEPT !.results = Append(@, ScoreRow(c.urls_data[c.i].date, score, notes)),
            !.i = @ + 1, !.attempt = 0, !.pc = "visit"]

\* Lines 101-125 and 143-167: the page of one URL is loaded and the element
\* of the score looked for.  driver.get may raise, the wait may time out,
\* the element may be missing.
Visit(outcome) ==
  /\ call.fn = "process_urls_automated"
  /\ ~call.done
  /\ call.pc = "visit"
  /\ call.i <= Len(call.urls_data)
  /\ call' = CASE outcome = "get raises" -> Recorded(call, "ERROR", "Message: unknown error")
               [] outcome = "timeout"    -> Recorded(call, "TIMEOUT", "Auto-extracted")
               [] outcome = "no element" -> Recorded(call, "ERROR", "Auto-extracted")
               [] outcome = "found"      -> [call EXCEPT !.pc = "poll", !.attempt = 0]
  /\ UNCHANGED <<csv, files, run, config>>

\* Lines 128-141: one reading of the score, every half second and
\* wait_time * 2 times at most; a score ends the loop, and so does a read
\* that raises.
Poll(age_value, raises) ==
  /\ call.fn = "process_urls_automated"
  /\ ~call.done
  /\ call.pc = "poll"
  /\ call.attempt < wait_time * 2
  /\ call' = IF raises THEN Recorded(call, "ERROR", "Auto-extracted")
             ELSE IF IsResult(age_value)
             THEN Recorded(call, age_value, "Auto-extracted")
             ELSE IF call.attempt + 1 = wait_time * 2
             THEN Recorded(call, "00 (needs verification)", "Auto-extracted")
             ELSE [call EXCEPT !.attempt = @ + 1]
  /\ UNCHANGED <<csv, files, run, config>>

\* Lines 169-210: the browser is closed and the results are saved: in
\* incremental mode after the rows of the existing file, sorted by date,
\* otherwise in place of the file.
SaveResults ==
  LET c == call
      out == files[HISTORY(c.calc)]
      all_results == out.data \o c.results
  IN  /\ call.fn = "process_urls_automated"
      /\ ~call.done
      /\ call.pc = "visit"
      /\ call.i > Len(call.urls_data)
      /\ IF c.results = <<>>
         THEN call' = Returns(c, FALSE) /\ UNCHANGED files
         ELSE IF c.incremental /\ out.exists
         THEN IF ~out.valid
              THEN call' = Returns(c, FALSE) /\ UNCHANGED files
              ELSE IF SortRaises(all_results)
              THEN call' = NoCall /\ UNCHANGED files
              ELSE /\ files' = [files EXCEPT ![HISTORY(c.calc)] =
                                  JsonFile(SortByDate(all_results))]
                   /\ call' = Returns(c, TRUE)
         ELSE /\ files' = [files EXCEPT ![HISTORY(c.calc)] = JsonFile(c.results)]
              /\ call' = Returns(c, TRUE)
      /\ UNCHANGED <<csv, run, config>>

\* What the user types at the prompt of open_urls_interactive once the
\* input is accepted: a score, 'skip' or 'quit'.
Answers == {"52.3", "skip", "quit"}

\* open_urls_interactive, lines 66-111: the rows recorded for the entries
\* from the i-th on, up to the first 'quit'.
RECURSIVE Entered(_, _, _)
Entered(urls_data, answers, i) ==
  IF i > Len(urls_data) \/ Lower(answers[i]) = "quit" THEN <<>>
  ELSE <<IF Lower(answers[i]) = "skip"
         THEN ScoreRow(urls_data[i].date, "", "Skipped")
         ELSE ScoreRow(urls_data[i].date, answers[i], "Manual entry")>>
       \o Entered(urls_data, answers, i + 1)

\* existing_data[row['Measurement Date']] = row, for the rows in order: the
\* dict of the rows by date.
RECURSIVE RowsByDate(_, _)
RowsByDate(existing_data, rows) ==
  IF rows = <<>> THEN existing_data
  ELSE RowsByDate(DictPut(existing_data, Head(rows).date, Head(rows)), Tail(rows))

\* Lines 117-128: the rows of the existing file by date, then the results.
Merged(existing_rows, results) ==
  RowsByDate(RowsByDate(EmptyDict, existing_rows), results)

\* open_urls_interactive: every URL of the batch file is opened, the user
\* answers, and the results are merged into the output file, which is
\* written in the order of sorted(existing_data.keys()).
OpenUrlsInteractive(answers) ==
  LET batch == files[STORE("Bortz")]
      out == files[HISTORY("Bortz")]
      urls_data == batch.data
      results == Entered(urls_data, answers, 1)
      existing_data == Merged(out.data, results)
      keys == SortedStrings(DOMAIN existing_data)
      c == [Visiting("Bortz", FALSE, urls_data) EXCEPT
              !.fn = "open_urls_interactive", !.results = results]
  IN  /\ NoProgram
      /\ IF ~batch.exists \/ ~batch.valid
         THEN call' = Returns(c, FALSE) /\ UNCHANGED files
         ELSE IF results = <<>> \/ (out.exists /\ ~out.valid)
         THEN call' = Returns(c, FALSE) /\ UNCHANGED files
         ELSE /\ files' = [files EXCEPT ![HISTORY("Bortz")] =
                             JsonFile([k \in 1..Len(keys) |-> existing_data[keys[k]]])]
              /\ call' = Returns(c, TRUE)
      /\ UNCHANGED <<csv, run, config>>

DownstreamCalcs == {"Bortz", "Levine"}

InitHistory ==
  /\ csv = <<>>
  /\ run = [p \in Procs |-> Idle]
  /\ config = [BIRTHDATE |-> BIRTHDATE]
  /\ call = NoCall
  /\ \E calc \in DownstreamCalcs :
       files = [f \in FileNames |->
                  IF f = STORE(calc)
                  THEN JsonFile(FreshOutput(calc, ExportFor(calc, 0)))
                  ELSE NoFile]

NextHistory ==
  \/ \E calc \in DownstreamCalcs :
       \E k \in 0..Len(ExtraRows), merged \in BOOLEAN :
         BatchFileWritten(calc, k, merged)
  \/ \E calc \in DownstreamCalcs, incremental \in BOOLEAN, driver_ok \in BOOLEAN :
       ProcessStart(calc, incremental, driver_ok)
  \/ \E outcome \in {"get raises", "timeout", "no element", "found"} : Visit(outcome)
  \/ \E age_value \in PageTexts, raises \in BOOLEAN : Poll(age_value, raises)
  \/ SaveResults
  \/ \E answers \in [1..Len(files[STORE("Bortz")].data) -> Answers] :
       OpenUrlsInteractive(answers)

SpecHistory == InitHistory /\ [][NextHistory]_vars

(***************************************************************************)
(* Claims about the history of scores (SpecHistory).                       *)
(***************************************************************************)
\* The rows are in ascending order of their dates, one row for a date.
DateSorted(rows) ==
  \A i, j \in 1..Len(rows) : i < j => strptime(rows[i].date) <= strptime(rows[j].date)

OneRowPerDate(rows) ==
  \A i, j \in 1..Len(rows) : i # j => rows[i].date # rows[j].date

\* Every row of old is a row of new.
RowsKept(old, new) ==
  \A i \in 1..Len(old) : \E j \in 1..Len(new) : new[j] = old[i]

\* C25 (score history is append-only): when open_urls_interactive saves its
\* results into an output file that holds rows, every row the file held is
\* a row of the file written, score and notes unchanged, and the file
\* written is sorted by date with one row for a date.
C25_HistoryAppendOnly ==
  [][(call'.fn = "open_urls_interactive"
        /\ files[HISTORY("Bortz")].data # <<>>
        /\ files'[HISTORY("Bortz")] # files[HISTORY("Bortz")])
     => /\ RowsKept(files[HISTORY("Bortz")].data, files'[HISTORY("Bortz")].data)
        /\ DateSorted(files'[HISTORY("Bortz")].data)
        /\ OneRowPerDate(files'[HISTORY("Bortz")].data)]_vars

\* What holds of the code: the file written has one row for a date, the
\* rows of the dates without a result are kept, and every result is a row.
C25_MergedByDate ==
  [][(call'.fn = "open_urls_interactive"
        /\ files'[HISTORY("Bortz")] # files[HISTORY("Bortz")])
     => LET old == files[HISTORY("Bortz")].data
            new == files'[HISTORY("Bortz")].data
        IN  /\ OneRowPerDate(new)
            /\ EntryDates(old) \subseteq EntryDates(new)
            /\ \A i \in 1..Len(old) :
                 (\A j \in 1..Len(new) : new[j] # old[i])
                   => \E j \in 1..Len(new) :
                        /\ new[j].date = old[i].date
                        /\ new[j].notes \in {"Skipped", "Manual entry"}]_vars

\* The program of call is process_urls_automated or
\* process_levine_urls_automated, under way.
Automated(c) == c.fn = "process_urls_automated" /\ ~c.done

\* C26 (downstream incremental processing): in incremental mode, with an
\* output file that exists, process_urls_automated and
\* process_levine_urls_automated visit only the URLs whose date has no row
\* in that file, keep every row of it and write a file sorted by date with
\* at most one row for a date; when no URL is new they return success and
\* leave the file as it is.
C26_IncrementalProcessing ==
  [][/\ ( /\ Automated(call')
          /\ call'.incremental
          /\ files'[HISTORY(call'.calc)].exists )
        => \A j \in 1..Len(call'.urls_data) :
             call'.urls_data[j].date \notin EntryDates(files'[HISTORY(call'.calc)].data)
     /\ ( /\ Automated(call)
          /\ call.incremental
          /\ files[HISTORY(call.calc)].exists
          /\ call' # NoCall
          /\ call'.done )
        => LET old == files[HISTORY(call.calc)].data
               new == files'[HISTORY(call.calc)].data
           IN  /\ RowsKept(old, new)
               /\ Len(new) = Len(old) + Len(call.results)
               /\ RowsKept(call.results, new)
               /\ DateSorted(new)
               /\ OneRowPerDate(new)
     /\ ( /\ NoProgram
          /\ call' # call
          /\ call'.fn = "process_urls_automated"
          /\ call'.incremental
          /\ files[STORE(call'.calc)].exists
          /\ files[HISTORY(call'.calc)].exists
          /\ EntryDates(files[STORE(call'.calc)].data)
               \subseteq EntryDates(files[HISTORY(call'.calc)].data) )
        => call'.done /\ call'.ret /\ files' = files]_vars

\* An incremental run that has visited the URLs of the new dates, fewer
\* than the batch file holds, and is about to add their rows to the rows of
\* the output file.
C26_Witness ==
  /\ Automated(call)
  /\ call.incremental
  /\ files[HISTORY(call.calc)].exists
  /\ Len(call.urls_data) >= 1
  /\ Len(call.urls_data) < Len(files[STORE(call.calc)].data)
  /\ call.i > Len(call.urls_data)

\* The scores process_urls_automated stores.
FailureMarkers == {"TIMEOUT", "ERROR", "00 (needs verification)"}

\* C30 (failed extraction is final): every URL process_urls_automated has
\* visited has exactly one result row, with a number or one of the markers
\* TIMEOUT, ERROR and 00 (needs verification) for a score, the score is
\* read at most 2 * wait_time times for a URL, and an incremental run
\* visits no URL of a date that has a row in the output file, whether that
\* row holds a number or a marker of failure.
C30_FailedExtractionFinal ==
  Automated(call) =>
    /\ Len(call.results) = call.i - 1
    /\ \A j \in 1..Len(call.results) :
         /\ call.results[j].date = call.urls_data[j].date
         /\ \/ call.results[j].score \in FailureMarkers
            \/ FloatParses(call.results[j].score)
    /\ call.attempt <= 2 * wait_time
    /\ call.pc = "poll" => call.attempt < 2 * wait_time
    /\ (call.incremental /\ files[HISTORY(call.calc)].exists) =>
         \A k \in 1..Len(files[HISTORY(call.calc)].data) :
           \A j \in 1..Len(call.urls_data) :
             call.urls_data[j].date # files[HISTORY(call.calc)].data[k].date

\* An incremental run under way over a new date, while the output file
\* holds a marker of failure for a date of the batch file.
C30_Witness ==
  /\ Automated(call)
  /\ call.incremental
  /\ call.i > 1
  /\ \E k \in 1..Len(files[HISTORY(call.calc)].data) :
       /\ files[HISTORY(call.calc)].data[k].score \in FailureMarkers
       /\ files[HISTORY(call.calc)].data[k].date
            \in EntryDates(files[STORE(call.calc)].data)

=============================================================================
